---- MODULE Spec2Model ----
(***************************************************************************)
(* Lead scraping tool: criteria extraction (utils/nlp_extractor.py), query *)
(* planning, and the lead aggregation pipelines of LeadScraper             *)
(* (lead_scraper.py, Selenium/Chrome) and LeadScraperNoChrome              *)
(* (lead_scraper_no_chrome.py, requests).                                  *)
(*                                                                         *)
(* Text is modelled as a sequence of lexemes <<kind, value>>: a word       *)
(* <<"w", s>>, a run of decimal digits <<"n", n>> or a dash <<"-", "-">>.  *)
(* Consecutive lexemes are separated by one space, except that a dash is   *)
(* written without spaces on either side ("2-5", not "2 - 5").  Words are  *)
(* atomic: the regular expressions of the source are evaluated lexeme by   *)
(* lexeme over the finite lexicon below.                                   *)
(***************************************************************************)
EXTENDS Integers, Sequences, FiniteSets, TLC

\* ------------------------------------------------------------------------
\* Generic helpers
\* ------------------------------------------------------------------------

\* Optional[T]: None is the empty sequence, a value x is the sequence <<x>>.
None == <<>>

Some(x) == <<x>>

SetMin(S) == CHOOSE x \in S : \A y \in S : x <= y

\* the elements of a set of numbers in ascending order
RECURSIVE AscendingSeq(_)
AscendingSeq(S) ==
    IF S = {} THEN <<>>
    ELSE LET m == SetMin(S) IN <<m>> \o AscendingSeq(S \ {m})

Min(a, b) == IF a <= b THEN a ELSE b

\* Python's s[:n] on a list: n >= 0 keeps the first n, n < 0 drops the last -n.
PySlice(s, n) ==
    IF n >= 0
    THEN SubSeq(s, 1, IF n < Len(s) THEN n ELSE Len(s))
    ELSE SubSeq(s, 1, IF Len(s) + n > 0 THEN Len(s) + n ELSE 0)

\* ------------------------------------------------------------------------
\* Lexemes
\* ------------------------------------------------------------------------

W(s) == <<"w", s>>

N(n) == <<"n", n>>

Dash == <<"-", "-">>

EndOfText == <<"$", "$">>

Tok(text, i) == IF i \in 1..Len(text) THEN text[i] ELSE EndOfText

IsNum(t) == t[1] = "n"

IsDash(t) == t[1] = "-"

IsWord(t, s) == t[1] = "w" /\ t[2] = s

IsWordIn(t, S) == t[1] = "w" /\ t[2] \in S

\* str.lower() on the words of the lexicon that carry an upper-case letter.
LowerWord(s) ==
    CASE s = "Since" -> "since"
      [] s = "Founders" -> "founders"
      [] s = "Startup" -> "startup"
      [] OTHER -> s

Lower(text) ==
    [i \in 1..Len(text) |->
        IF text[i][1] = "w" THEN W(LowerWord(text[i][2])) ELSE text[i]]

\* Number of decimal digits of n, and the number written by its first four
\* digits (what \d{4} captures at the start of a digit run).
RECURSIVE NumDigits(_)
NumDigits(n) == IF n < 10 THEN 1 ELSE 1 + NumDigits(n \div 10)

RECURSIVE FirstFourDigits(_)
FirstFourDigits(n) == IF n < 10000 THEN n ELSE FirstFourDigits(n \div 10)

\* re.search: the leftmost position at which the pattern M matches; M(text, i)
\* gives the captured digit groups of a match starting at lexeme i, or None.
Search(text, M(_, _)) ==
    LET hits == {i \in 1..Len(text) : M(text, i) # None}
    IN  IF hits = {} THEN None ELSE M(text, SetMin(hits))

\* ------------------------------------------------------------------------
\* NLPExtractor._extract_team_size
\* ------------------------------------------------------------------------

EmployeeWords == {"employee", "employees"}

MemberWords == {"member", "members"}

\* (employees?|people|team members?|members?) starting at lexeme i
UnitAt1(text, i) ==
    \/ IsWordIn(Tok(text, i), EmployeeWords \cup {"people"} \cup MemberWords)
    \/ IsWord(Tok(text, i), "team") /\ IsWordIn(Tok(text, i + 1), MemberWords)

\* (employees?|people) starting at lexeme i
UnitAt3(text, i) == IsWordIn(Tok(text, i), EmployeeWords \cup {"people"})

\* (employees?|people|team members?) starting at lexeme i
UnitAt4(text, i) ==
    \/ IsWordIn(Tok(text, i), EmployeeWords \cup {"people"})
    \/ IsWord(Tok(text, i), "team") /\ IsWordIn(Tok(text, i + 1), MemberWords)

\* r'(\d+)[-–](\d+)\s*(employees?|people|team members?|members?)'
TeamPattern1(text, i) ==
    IF /\ IsNum(Tok(text, i)) /\ IsDash(Tok(text, i + 1))
       /\ IsNum(Tok(text, i + 2)) /\ UnitAt1(text, i + 3)
    THEN <<Tok(text, i)[2], Tok(text, i + 2)[2]>>
    ELSE None

\* r'team\s*of\s*(\d+)[-–]?(\d+)?'
TeamPattern2(text, i) ==
    IF /\ IsWord(Tok(text, i), "team") /\ IsWord(Tok(text, i + 1), "of")
       /\ IsNum(Tok(text, i + 2))
    THEN IF IsDash(Tok(text, i + 3)) /\ IsNum(Tok(text, i + 4))
         THEN <<Tok(text, i + 2)[2], Tok(text, i + 4)[2]>>
         ELSE <<Tok(text, i + 2)[2]>>
    ELSE None

\* r'(\d+)\s*to\s*(\d+)\s*(employees?|people)'
TeamPattern3(text, i) ==
    IF /\ IsNum(Tok(text, i)) /\ IsWord(Tok(text, i + 1), "to")
       /\ IsNum(Tok(text, i + 2)) /\ UnitAt3(text, i + 3)
    THEN <<Tok(text, i)[2], Tok(text, i + 2)[2]>>
    ELSE None

\* r'(\d+)\s*(employees?|people|team members?)'
TeamPattern4(text, i) ==
    IF IsNum(Tok(text, i)) /\ UnitAt4(text, i + 1)
    THEN <<Tok(text, i)[2]>>
    ELSE None

\* groups = [g for g in match.groups() if g and g.isdigit()], then the
\* two-group / one-group dictionary.
RangeOfGroups(groups) ==
    IF Len(groups) = 2
    THEN Some([min |-> groups[1], max |-> groups[2]])
    ELSE Some([min |-> groups[1], max |-> groups[1]])

_extract_team_size(text) ==
    LET m1 == Search(text, TeamPattern1)
        m2 == Search(text, TeamPattern2)
        m3 == Search(text, TeamPattern3)
        m4 == Search(text, TeamPattern4)
    IN  IF m1 # None THEN RangeOfGroups(m1)
        ELSE IF m2 # None THEN RangeOfGroups(m2)
        ELSE IF m3 # None THEN RangeOfGroups(m3)
        ELSE IF m4 # None THEN RangeOfGroups(m4)
        ELSE None

\* ------------------------------------------------------------------------
\* NLPExtractor._extract_founding_year
\* ------------------------------------------------------------------------

current_year == 2026

YearWords == {"year", "years"}

\* r'(?:in\s+(?:the\s+)?last|within)\s+(\d+)\s+years?'
LastYearsPattern(text, i) ==
    LET after ==
            IF IsWord(Tok(text, i), "in") /\ IsWord(Tok(text, i + 1), "the")
               /\ IsWord(Tok(text, i + 2), "last")
            THEN i + 3
            ELSE IF IsWord(Tok(text, i), "in") /\ IsWord(Tok(text, i + 1), "last")
            THEN i + 2
            ELSE IF IsWord(Tok(text, i), "within")
            THEN i + 1
            ELSE 0
    IN  IF after > 0 /\ IsNum(Tok(text, after))
           /\ IsWordIn(Tok(text, after + 1), YearWords)
        THEN <<Tok(text, after)[2]>>
        ELSE None

\* r'(?:started|founded)\s+in\s+(\d{4})'
FoundedInPattern(text, i) ==
    IF /\ IsWordIn(Tok(text, i), {"started", "founded"})
       /\ IsWord(Tok(text, i + 1), "in")
       /\ IsNum(Tok(text, i + 2)) /\ NumDigits(Tok(text, i + 2)[2]) >= 4
    THEN <<FirstFourDigits(Tok(text, i + 2)[2])>>
    ELSE None

\* r'since\s+(\d{4})'
SincePattern(text, i) ==
    IF /\ IsWord(Tok(text, i), "since")
       /\ IsNum(Tok(text, i + 1)) /\ NumDigits(Tok(text, i + 1)[2]) >= 4
    THEN <<FirstFourDigits(Tok(text, i + 1)[2])>>
    ELSE None

\* an extraction that tries the "since" pattern first (used to test C20)
FoundingYearSinceFirst(text) ==
    LET m1 == Search(text, LastYearsPattern)
        m2 == Search(text, FoundedInPattern)
        m3 == Search(text, SincePattern)
    IN  IF m3 # None THEN Some([min |-> m3[1], max |-> current_year])
        ELSE IF m1 # None THEN Some([min |-> current_year - m1[1], max |-> current_year])
        ELSE IF m2 # None THEN Some([min |-> m2[1], max |-> m2[1]])
        ELSE None

_extract_founding_year(text) ==
    LET m1 == Search(text, LastYearsPattern)
        m2 == Search(text, FoundedInPattern)
        m3 == Search(text, SincePattern)
    IN  IF m1 # None THEN Some([min |-> current_year - m1[1], max |-> current_year])
        ELSE IF m2 # None THEN Some([min |-> m2[1], max |-> m2[1]])
        ELSE IF m3 # None THEN Some([min |-> m3[1], max |-> current_year])
        ELSE None

\* ------------------------------------------------------------------------
\* Set iteration order.  list(set(xs)) iterates in hash-slot order, and
\* the string hash depends on the interpreter's per-process hash seed.
\* HashUniverse lists the strings that occur as set elements; a seed fixes
\* a direction and a rotation of it.
\* ------------------------------------------------------------------------

HashUniverse ==
    <<"Founder", "Co-Founder", "Ceo", "Cto", "Cfo", "Coo", "President", "Vp",
      "Vice President", "Director", "Manager", "Lead", "Head", "Engineer",
      "Developer", "Designer", "Architect", "Analyst", "Executive", "Officer",
      "Partner", "Owner", "Principal",
      "last", "within", "year", "years", "founded", "started", "since", "team",
      "employee", "employees", "people", "member", "members", "find",
      "founder", "founders", "ceo", "ceos", "cto", "president", "vice",
      "startup", "startups", "tech", "fintech", "berlin", "atlanta",
      "the", "in", "of", "to", "co">>

HashIndex(x) == CHOOSE i \in 1..Len(HashUniverse) : HashUniverse[i] = x

HashSlot(seed, x) ==
    LET n == Len(HashUniverse)
        i == HashIndex(x)
    IN  ((IF seed % 2 = 1 THEN n - i ELSE i) + (seed \div 2)) % n

\* list(S) for a set S of strings: ascending slot order.
RECURSIVE SetToList(_, _)
SetToList(seed, S) ==
    IF S = {} THEN <<>>
    ELSE LET x == CHOOSE y \in S :
                    \A z \in S : HashSlot(seed, y) <= HashSlot(seed, z)
         IN  <<x>> \o SetToList(seed, S \ {x})

\* ------------------------------------------------------------------------
\* NLPExtractor vocabularies (declared order preserved)
\* ------------------------------------------------------------------------

TokEq(a, b) == a[1] = b[1] /\ a[2] = b[2]

OccursAt(text, i, form) ==
    \A k \in 1..Len(form) : TokEq(Tok(text, i + k - 1), form[k])

Occurs(text, form) == \E i \in 1..Len(text) : OccursAt(text, i, form)

\* One entry per POSITION_KEYWORDS item: the keyword's .title() and the lexeme
\* sequences matched by r'\b' + keyword + r's?\b'.
Pos1(title, s, p) == [title |-> title, forms |-> {<<W(s)>>, <<W(p)>>}]

POSITION_KEYWORDS ==
    << Pos1("Founder", "founder", "founders"),
       [title |-> "Co-Founder",
        forms |-> {<<W("co"), Dash, W("founder")>>, <<W("co"), Dash, W("founders")>>}],
       Pos1("Ceo", "ceo", "ceos"),
       Pos1("Cto", "cto", "ctos"),
       Pos1("Cfo", "cfo", "cfos"),
       Pos1("Coo", "coo", "coos"),
       Pos1("President", "president", "presidents"),
       Pos1("Vp", "vp", "vps"),
       [title |-> "Vice President",
        forms |-> {<<W("vice"), W("president")>>, <<W("vice"), W("presidents")>>}],
       Pos1("Director", "director", "directors"),
       Pos1("Manager", "manager", "managers"),
       Pos1("Lead", "lead", "leads"),
       Pos1("Head", "head", "heads"),
       Pos1("Engineer", "engineer", "engineers"),
       Pos1("Developer", "developer", "developers"),
       Pos1("Designer", "designer", "designers"),
       Pos1("Architect", "architect", "architects"),
       Pos1("Analyst", "analyst", "analysts"),
       Pos1("Executive", "executive", "executives"),
       Pos1("Officer", "officer", "officers"),
       Pos1("Partner", "partner", "partners"),
       Pos1("Owner", "owner", "owners"),
       Pos1("Principal", "principal", "principals") >>

COMPANY_TYPE_KEYWORDS ==
    << [type |-> "startup", keywords |-> <<"startup", "start-up", "startups">>],
       [type |-> "enterprise", keywords |-> <<"enterprise", "corporation", "corporate">>],
       [type |-> "agency", keywords |-> <<"agency", "agencies">>],
       [type |-> "consulting", keywords |-> <<"consulting", "consultancy">>],
       [type |-> "saas", keywords |-> <<"saas", "software as a service">>],
       [type |-> "ecommerce", keywords |-> <<"e-commerce", "ecommerce", "online store">>],
       [type |-> "fintech", keywords |-> <<"fintech", "financial technology">>],
       [type |-> "healthtech",
        keywords |-> <<"healthtech", "health tech", "healthcare technology">>] >>

INDUSTRY_KEYWORDS ==
    <<"tech", "technology", "software", "ai", "ml", "machine learning",
      "cloud", "saas", "fintech", "healthcare", "education", "edtech",
      "marketing", "sales", "finance", "hr", "recruiting", "legal",
      "real estate", "construction", "manufacturing", "retail",
      "hospitality", "travel", "entertainment", "media", "gaming">>

LOCATION_KEYWORDS ==
    <<"san francisco", "sf", "bay area", "silicon valley", "new york",
      "nyc", "boston", "austin", "seattle", "los angeles", "la",
      "chicago", "denver", "miami", "atlanta", "london", "berlin",
      "singapore", "bangalore", "toronto", "remote", "worldwide">>

\* str.title() on a location keyword.
TitleCase(s) ==
    CASE s = "san francisco" -> "San Francisco" [] s = "sf" -> "Sf"
      [] s = "bay area" -> "Bay Area" [] s = "silicon valley" -> "Silicon Valley"
      [] s = "new york" -> "New York" [] s = "nyc" -> "Nyc"
      [] s = "boston" -> "Boston" [] s = "austin" -> "Austin"
      [] s = "seattle" -> "Seattle" [] s = "los angeles" -> "Los Angeles"
      [] s = "la" -> "La" [] s = "chicago" -> "Chicago"
      [] s = "denver" -> "Denver" [] s = "miami" -> "Miami"
      [] s = "atlanta" -> "Atlanta" [] s = "london" -> "London"
      [] s = "berlin" -> "Berlin" [] s = "singapore" -> "Singapore"
      [] s = "bangalore" -> "Bangalore" [] s = "toronto" -> "Toronto"
      [] s = "remote" -> "Remote" [] s = "worldwide" -> "Worldwide"
      [] OTHER -> s

\* The vocabulary keywords that are substrings of a word of the lexicon
\* ('la' is inside "last" and "atlanta", 'tech' inside "fintech", ...).  A
\* keyword of several words needs lexemes the lexicon does not have.
Inside(w) ==
    CASE w = "startup" -> {"startup"}
      [] w = "startups" -> {"startup", "startups"}
      [] w = "tech" -> {"tech"}
      [] w = "fintech" -> {"fintech", "tech"}
      [] w = "berlin" -> {"berlin"}
      [] w = "atlanta" -> {"atlanta", "la"}
      [] w = "last" -> {"la"}
      [] OTHER -> {}

\* keyword in text
InText(keyword, text) ==
    \E i \in 1..Len(text) : text[i][1] = "w" /\ keyword \in Inside(text[i][2])

\* first index of a sequence satisfying P, 0 when there is none
FirstIndex(s, P(_)) ==
    LET hits == {i \in 1..Len(s) : P(s[i])} IN IF hits = {} THEN 0 ELSE SetMin(hits)

\* ------------------------------------------------------------------------
\* NLPExtractor: the extractors and extract_criteria
\* ------------------------------------------------------------------------

_extract_positions(seed, text) ==
    LET positions ==
            {POSITION_KEYWORDS[k].title : k \in
                {j \in 1..Len(POSITION_KEYWORDS) :
                    \E f \in POSITION_KEYWORDS[j].forms : Occurs(text, f)}}
    IN  SetToList(seed, positions)

_extract_company_type(text) ==
    LET Hit(entry) == \E k \in 1..Len(entry.keywords) : InText(entry.keywords[k], text)
        i == FirstIndex(COMPANY_TYPE_KEYWORDS, Hit)
    IN  IF i = 0 THEN None ELSE Some(COMPANY_TYPE_KEYWORDS[i].type)

_extract_industry(text) ==
    LET Hit(industry) == InText(industry, text)
        i == FirstIndex(INDUSTRY_KEYWORDS, Hit)
    IN  IF i = 0 THEN None ELSE Some(INDUSTRY_KEYWORDS[i])

_extract_location(text) ==
    LET Hit(location) == InText(location, text)
        i == FirstIndex(LOCATION_KEYWORDS, Hit)
    IN  IF i = 0 THEN None ELSE Some(TitleCase(LOCATION_KEYWORDS[i]))

stop_words ==
    {"the", "a", "an", "and", "or", "but", "in", "on", "at", "to",
     "for", "of", "with", "that", "have", "has", "had", "is", "are",
     "was", "were", "be", "been", "being", "this", "these", "those"}

\* words of the lexicon shorter than three letters
ShortWords == {"in", "of", "to", "co"}

_extract_general_keywords(seed, text) ==
    LET words == {text[i][2] : i \in
                    {j \in 1..Len(text) : text[j][1] = "w" /\ text[j][2] \notin ShortWords}}
        keywords == {w \in words : w \notin stop_words}
    IN  PySlice(SetToList(seed, keywords), 10)

extract_criteria(seed, text) ==
    LET text_lower == Lower(text)
    IN  [original_query |-> text,
         positions |-> _extract_positions(seed, text_lower),
         company_type |-> _extract_company_type(text_lower),
         industry |-> _extract_industry(text_lower),
         location |-> _extract_location(text_lower),
         team_size |-> _extract_team_size(text_lower),
         founding_year |-> _extract_founding_year(text_lower),
         keywords |-> _extract_general_keywords(seed, text_lower)]

\* ------------------------------------------------------------------------
\* NLPExtractor.generate_search_queries.  A query string is the sequence of
\* its space-separated parts.
\* ------------------------------------------------------------------------

\* a position query with the location put first (used to test C12)
PositionQueryLocationFirst(criteria, position) ==
    <<position>> \o criteria.location \o criteria.company_type \o criteria.industry

PositionQuery(criteria, position) ==
    <<position>> \o criteria.company_type \o criteria.industry \o criteria.location

\* a profile-site query that leaves the industry out (used to test C15)
LinkedInQueryNoIndustry(criteria) ==
    <<"site:linkedin.com/in/", criteria.positions[1]>> \o criteria.company_type

LinkedInQuery(criteria) ==
    <<"site:linkedin.com/in/", criteria.positions[1]>>
        \o criteria.company_type \o criteria.industry

\* a keyword query that is not cut to five keywords (used to test C13)
KeywordQueryAll(criteria) == criteria.keywords

\* ' '.join(criteria['keywords'][:5])
KeywordQuery(criteria) == PySlice(criteria.keywords, 5)

\* a planner that plans nothing (used to test C14)
PlanNothing(criteria) == <<>>

\* a planner that falls back on the raw query text (used to test C4)
PlanOriginalQuery(criteria) == <<criteria.original_query>>

generate_search_queries(criteria) ==
    LET first3 == PySlice(criteria.positions, 3)
        base == [i \in 1..Len(first3) |-> PositionQuery(criteria, first3[i])]
        structured ==
            IF criteria.positions # <<>> /\ criteria.company_type # None
            THEN Append(base, LinkedInQuery(criteria))
            ELSE base
        queries ==
            IF structured = <<>> /\ criteria.keywords # <<>>
            THEN <<KeywordQuery(criteria)>>
            ELSE structured
    IN  PySlice(queries, 5)

\* ------------------------------------------------------------------------
\* EmailExtractor.  An address is the sequence of its chunks: local part,
\* "@", then the labels of the domain separated by "." chunks.  A text is
\* given by the sequence of the matches of EMAIL_PATTERN in it.
\* ------------------------------------------------------------------------

Addr(local, labels) ==
    <<local, "@">> \o labels

ANN_MIXED == Addr("Ann", <<"Corp", ".", "io">>)

ANN == Addr("ann", <<"corp", ".", "io">>)

INFO == Addr("info", <<"corp", ".", "io">>)

LOGO_2X == Addr("logo", <<"2x", ".", "png">>)

ICON_3X == Addr("icon", <<"3x", ".", "corp", ".", "io">>)

PHOTO_JPG == Addr("photo", <<"corp", ".", "JPG">>)

BOB_EXAMPLE == Addr("Bob", <<"Example", ".", "com">>)

JOE_MYTEST == Addr("joe", <<"mytest", ".", "com">>)

ERR_SENTRY == Addr("err", <<"sentry", ".", "io">>)

\* every address of the model, in a fixed order used to build hash orders
EmailUniverse ==
    <<ANN_MIXED, ANN, INFO, LOGO_2X, ICON_3X, PHOTO_JPG, BOB_EXAMPLE, JOE_MYTEST,
      ERR_SENTRY,
      Addr("photo", <<"corp", ".", "jpg">>), Addr("bob", <<"example", ".", "com">>)>>

\* str.lower() on one chunk
LowerChunk(c) ==
    CASE c = "Ann" -> "ann"
      [] c = "Bob" -> "bob"
      [] c = "Corp" -> "corp"
      [] c = "Example" -> "example"
      [] c = "JPG" -> "jpg"
      [] OTHER -> c

\* email.lower()
LowerAddr(email) == [i \in 1..Len(email) |-> LowerChunk(email[i])]

\* the chunks that end with 'example', 'test' or 'sample'
EndsWithReserved == {"example", "test", "sample", "mytest"}

\* the chunks that start with 'sentry'
StartsWithSentry == {"sentry"}

ImageSuffixes == {"png", "jpg", "jpeg", "gif", "svg"}

\* some pattern of EXCLUDE_PATTERNS is found in email (re.IGNORECASE)
Excluded(email) ==
    LET e == LowerAddr(email)
        n == Len(e)
    IN  \/ n >= 2 /\ e[n - 1] = "." /\ e[n] \in ImageSuffixes
        \/ n >= 3 /\ e[n - 2] \in EndsWithReserved /\ e[n - 1] = "." /\ e[n] = "com"
        \/ \E i \in 1..(n - 1) : e[i] = "@" /\ e[i + 1] \in StartsWithSentry
        \/ \E i \in 1..(n - 2) : e[i] = "@" /\ e[i + 1] \in {"2x", "3x"} /\ e[i + 2] = "."

\* EmailExtractor._is_valid_email; valid is the set of addresses that
\* email_validator.validate_email accepts
_is_valid_email(email, valid) == ~Excluded(email) /\ email \in valid

EmailIndex(x) == CHOOSE i \in 1..Len(EmailUniverse) : EmailUniverse[i] = x

EmailSlot(seed, x) ==
    LET n == Len(EmailUniverse)
        i == EmailIndex(x)
    IN  ((IF seed % 2 = 1 THEN n - i ELSE i) + (seed \div 2)) % n

\* iteration over a set of addresses: ascending slot order
RECURSIVE EmailsToList(_, _)
EmailsToList(seed, S) ==
    IF S = {} THEN <<>>
    ELSE LET x == CHOOSE y \in S :
                    \A z \in S : EmailSlot(seed, y) <= EmailSlot(seed, z)
         IN  <<x>> \o EmailsToList(seed, S \ {x})

\* an extractor that forgets to lower-case (used to test C16)
EmailsAsWritten(potential_emails) ==
    {potential_emails[i] : i \in 1..Len(potential_emails)}

\* emails = {email.lower() for email in potential_emails}
LoweredSet(potential_emails) ==
    {LowerAddr(potential_emails[i]) : i \in 1..Len(potential_emails)}

\* EmailExtractor.extract_emails, and extract_from_html on the matches of
\* the page text
extract_emails(seed, potential_emails, valid) ==
    LET emails == LoweredSet(potential_emails)
        order == EmailsToList(seed, emails)
        keep == {i \in 1..Len(order) : _is_valid_email(order[i], valid)}
        idx == AscendingSeq(keep)
    IN  [n \in 1..Len(idx) |-> order[idx[n]]]

\* ------------------------------------------------------------------------
\* The web as seen by the scrapers: URLs, search result pages, profile and
\* website fetch outcomes.  A URL is the sequence of its chunks; a substring
\* test is a test for a contiguous run of chunks.
\* ------------------------------------------------------------------------

Contains(url, pattern) ==
    \E i \in 1..Len(url) :
        \A k \in 1..Len(pattern) : i + k - 1 <= Len(url) /\ url[i + k - 1] = pattern[k]

PA == <<"https://www.", "linkedin.com", "/in/", "ann">>

PB == <<"https://www.", "linkedin.com", "/in/", "bob">>

W1 == <<"https://", "ann.dev", "/">>

W2 == <<"https://", "corp.io", "/", "team">>

SearchResult(title, url, snippet) == [title |-> title, url |-> url, snippet |-> snippet]

A1 == SearchResult("Ann - Founder", PA, "founder at corp")

A2 == SearchResult("Ann | LinkedIn", PA, "view profile")

B1 == SearchResult("Bob - CTO", PB, "cto at corp")

S1 == SearchResult("Ann's blog", W1, "posts")

S2 == SearchResult("Corp team", W2, "people")

\* The result lists a search page can hold, in page order (a search that
\* fails gives the empty list).
Pages == {<<A1, S1, S2>>, <<B1, A2>>}

\* 'linkedin.com/in/' in url
IsProfileUrl(url) == Contains(url, <<"linkedin.com", "/in/">>)

\* What a profile fetch can do: raise or answer a non-200 status ("error"),
\* deliver a page without the expected elements ("empty"), or deliver a
\* profile ("ok").
FetchOutcomes == {"error", "empty", "ok"}

NameOn(url) == IF url = PA THEN "Ann" ELSE IF url = PB THEN "Bob" ELSE "Site"

\* RequestsLinkedInScraper.scrape_profile: the dictionary is created with
\* empty fields, returned as it is on a non-200 status or an exception, and
\* filled from the page otherwise.  It never extracts emails.
RequestsScrapeProfile(url, outcome) ==
    [url |-> url, name |-> IF outcome = "ok" THEN NameOn(url) ELSE "", emails |-> <<>>]

\* LinkedInScraper.scrape_profile: the same shape; get_page_source (driver
\* start included) runs inside its try block, and emails come from the page.
\* the address matches in the text of a profile page
ProfileAddresses(url) == IF url = PA THEN <<ANN_MIXED>> ELSE <<>>

SeleniumScrapeProfile(seed, url, outcome) ==
    [url |-> url,
     name |-> IF outcome = "ok" THEN NameOn(url) ELSE "",
     emails |-> IF outcome = "ok"
                THEN extract_emails(seed, ProfileAddresses(url),
                                    LoweredSet(ProfileAddresses(url)))
                ELSE <<>>]

\* {p['url']: p for p in profiles}.values(): one entry per URL, at the
\* position of the URL's first occurrence, holding its last occurrence.
LastIndexOf(profiles, url) ==
    CHOOSE j \in 1..Len(profiles) :
        /\ profiles[j].url = url
        /\ \A k \in (j + 1)..Len(profiles) : profiles[k].url # url

DedupFirstWins(profiles) ==
    LET firsts == AscendingSeq({i \in 1..Len(profiles) :
                        \A j \in 1..(i - 1) : profiles[j].url # profiles[i].url})
    IN  [n \in 1..Len(firsts) |-> profiles[firsts[n]]]

DedupByUrl(profiles) ==
    LET firsts == AscendingSeq({i \in 1..Len(profiles) :
                        \A j \in 1..(i - 1) : profiles[j].url # profiles[i].url})
    IN  [n \in 1..Len(firsts) |-> profiles[LastIndexOf(profiles, profiles[firsts[n]].url)]]

\* [r for r in results if 'linkedin.com/in/' in r['url']]
RECURSIVE FilterProfiles(_)
FilterProfiles(results) ==
    IF results = <<>> THEN <<>>
    ELSE (IF IsProfileUrl(Head(results).url) THEN <<Head(results)>> ELSE <<>>)
            \o FilterProfiles(Tail(results))

\* ------------------------------------------------------------------------
\* State
\* ------------------------------------------------------------------------

VARIABLES
    hashSeed,       \* the interpreter's string hash seed (fixed per process)
    variant,        \* "chrome": LeadScraper, "nochrome": LeadScraperNoChrome
    driver,         \* WebScraper.driver is set (the browser was started)
    leads,          \* self.leads
    pc,             \* position inside the running method: "idle" between calls,
                    \* "done" when the method is about to hand back its result
    frame,          \* arguments and locals of the running (or last) method call
    trace,          \* external calls made by the running (or last) call, in order
    result,         \* how the last call ended: returned value or raised
    nlp_text,       \* input of a stand-alone extract_criteria call
    nlp_criteria    \* its result (None before the call)

vars == <<hashSeed, variant, driver, leads, pc, frame, trace, result,
          nlp_text, nlp_criteria>>

\* ------------------------------------------------------------------------
\* Bounds and input sets
\* ------------------------------------------------------------------------

\* a call starts only while the collection holds fewer leads than this
MaxLeads == 2

\* hash seeds 0..NumSeeds-1
NumSeeds == 2

\* a stand-alone extraction text is made of at most this many phrases
MaxPhrases == 2

Seeds == 0..(NumSeeds - 1)

Limits == {-1, 0, 1, 2}

\* natural-language queries given to the pipeline
RunQueries ==
    { <<>>,
      <<W("the"), W("in")>>,
      <<W("tech")>>,
      <<W("Founders"), W("in"), W("berlin")>>,
      <<W("find"), W("ceos"), W("cto"), W("co"), Dash, W("founder"), W("startups")>> }

Company == "Corp"

TitleLists == {<<>>, <<"CEO">>, <<"CEO", "CTO">>}

UrlLists == {<<>>, <<PA>>, <<PB, PA>>, <<W1, PB>>}

NoFrame == [op |-> "none"]

NoResult == [op |-> "none", status |-> "none"]

Event(e, arg, out) == [e |-> e, arg |-> arg, out |-> out]

\* a method that hands back only the newest lead (used to test C8)
ReturnedNewestLead(op, value) ==
    [op |-> op, status |-> "returned",
     value |-> IF value = <<>> THEN <<>> ELSE <<value[Len(value)]>>]

Returned(op, value) == [op |-> op, status |-> "returned", value |-> value]

Raised(op) == [op |-> op, status |-> "raised"]

\* ------------------------------------------------------------------------
\* Search backends
\* ------------------------------------------------------------------------

\* DuckDuckGoScraper.search: the whole body is inside try/except; a failed
\* request leaves results == [].  page is what the result page holds.
DuckDuckGoSearch(page, failed, num_results) ==
    IF failed THEN <<>> ELSE PySlice(page, num_results)

\* SearchScraper.google_search after get_page_source returned: an empty
\* page source (a failed page load) gives [], else search_results[:num_results].
GoogleSearch(page, failed, num_results) ==
    IF failed THEN <<>> ELSE PySlice(page, num_results)

\* WebScraper.get_page_source calls init_driver() before its try block:
\* while no driver exists the browser start can raise, and that exception
\* is not caught by get_page_source nor by google_search.
InitDriverCanRaise == variant = "chrome" /\ ~driver

\* What a search call that comes back returns.
SearchResults(page, failed, num_results) ==
    IF variant = "chrome"
    THEN GoogleSearch(page, failed, num_results)
    ELSE DuckDuckGoSearch(page, failed, num_results)

\* init_driver() went through (chrome), or there is no driver (nochrome)
DriverAfterSearch == driver \/ variant = "chrome"

ScrapeProfile(url, outcome) ==
    IF variant = "chrome"
    THEN SeleniumScrapeProfile(hashSeed, url, outcome)
    ELSE RequestsScrapeProfile(url, outcome)

\* ------------------------------------------------------------------------
\* search_leads_natural_language (both variants)
\* ------------------------------------------------------------------------

\* a search loop over the whole plan (used to test C28)
EveryQuery(search_queries) == search_queries

\* search_queries[:3]
QueriesToRun(search_queries) == PySlice(search_queries, 3)

\* list(unique_profiles)[:limit]
ProfilesToScrape(unique_profiles, limit) == PySlice(unique_profiles, limit)

NLStart ==
    /\ pc = "idle" /\ Len(leads) < MaxLeads
    /\ \E query \in RunQueries, limit \in Limits :
         LET criteria == extract_criteria(hashSeed, query)
             search_queries == generate_search_queries(criteria)
         IN  /\ frame' = [op |-> "nl", query |-> query, limit |-> limit,
                          criteria |-> criteria, search_queries |-> search_queries,
                          all_results |-> <<>>, unique_profiles |-> <<>>,
                          i |-> 0, j |-> 0, leads0 |-> leads]
             /\ pc' = IF QueriesToRun(search_queries) = <<>> THEN "dedup" ELSE "search"
    /\ trace' = <<>>
    /\ result' = NoResult
    /\ UNCHANGED <<hashSeed, variant, driver, leads, nlp_text, nlp_criteria>>

\* one iteration of "for search_query in search_queries[:3]"
NLSearch ==
    /\ pc = "search" /\ frame.op = "nl"
    /\ LET todo == QueriesToRun(frame.search_queries)
           q == todo[frame.i + 1]
       IN  \E failed \in BOOLEAN, page \in Pages :
             LET results == SearchResults(page, failed, frame.limit) IN
             /\ frame' = [frame EXCEPT !.all_results = @ \o results, !.i = @ + 1]
             /\ trace' = Append(trace, Event("search", q, [results |-> results, failed |-> failed]))
             /\ pc' = IF frame.i + 1 = Len(todo) THEN "dedup" ELSE "search"
    /\ driver' = DriverAfterSearch
    /\ UNCHANGED <<hashSeed, variant, leads, result, nlp_text, nlp_criteria>>

\* the browser cannot be started: google_search raises out of the method
SearchRaises ==
    /\ pc \in {"search", "person", "linkedin"} /\ InitDriverCanRaise
    /\ pc' = "done"
    /\ result' = Raised(frame.op)
    /\ UNCHANGED <<hashSeed, variant, driver, leads, frame, trace, nlp_text, nlp_criteria>>

\* "Filter to LinkedIn profiles" and "Remove duplicates"
NLDedup ==
    /\ pc = "dedup" /\ frame.op = "nl"
    /\ LET unique_profiles == DedupByUrl(FilterProfiles(frame.all_results))
       IN  /\ frame' = [frame EXCEPT !.unique_profiles = unique_profiles]
           /\ IF ProfilesToScrape(unique_profiles, frame.limit) = <<>>
              THEN pc' = "done" /\ result' = Returned("nl", leads)
              ELSE pc' = "scrape" /\ result' = result
    /\ trace' = Append(trace, Event("dedup", <<>>, <<>>))
    /\ UNCHANGED <<hashSeed, variant, driver, leads, nlp_text, nlp_criteria>>

\* the lead appended for one scraped search result
NLLead(profile, profile_data, query) ==
    IF variant = "chrome"
    THEN [url |-> profile_data.url, name |-> profile_data.name,
          emails |-> profile_data.emails, search_query |-> query]
    ELSE [url |-> profile_data.url, name |-> profile_data.name,
          emails |-> profile_data.emails, search_query |-> query,
          search_result_title |-> profile.title,
          search_result_snippet |-> profile.snippet]

\* an append that skips a record without a name (used to test C23)
AppendNamedLead(collection, lead_data) ==
    IF lead_data.name = "" THEN collection ELSE Append(collection, lead_data)

\* an append that writes over the lead already held for the URL, if there is
\* one (used to test C25)
HoldsUrl(collection, i, url) ==
    "url" \in DOMAIN collection[i] /\ collection[i].url = url

AppendMerging(collection, lead_data) ==
    IF \E i \in 1..Len(collection) : HoldsUrl(collection, i, lead_data.url)
    THEN [i \in 1..Len(collection) |->
             IF HoldsUrl(collection, i, lead_data.url) THEN lead_data ELSE collection[i]]
    ELSE Append(collection, lead_data)

\* an append that skips a URL the collection already holds (used to test C27)
AppendUnlessHeld(collection, lead_data) ==
    IF \E i \in 1..Len(collection) : HoldsUrl(collection, i, lead_data.url)
    THEN collection
    ELSE Append(collection, lead_data)

\* self.leads.append(lead_data)
AppendLead(collection, lead_data) == Append(collection, lead_data)

\* one iteration of "for profile in list(unique_profiles)[:limit]"
NLScrape ==
    /\ pc = "scrape" /\ frame.op = "nl"
    /\ LET todo == ProfilesToScrape(frame.unique_profiles, frame.limit)
           profile == todo[frame.j + 1]
       IN  \E outcome \in FetchOutcomes :
             LET lead_data == NLLead(profile, ScrapeProfile(profile.url, outcome), frame.query)
             IN  /\ leads' = AppendLead(leads, lead_data)
                 /\ frame' = [frame EXCEPT !.j = @ + 1]
                 /\ trace' = Append(trace, Event("fetch", profile.url, outcome))
                 /\ IF frame.j + 1 = Len(todo)
                    THEN pc' = "done" /\ result' = Returned("nl", leads')
                    ELSE pc' = "scrape" /\ result' = result
    /\ UNCHANGED <<hashSeed, variant, driver, nlp_text, nlp_criteria>>

\* ------------------------------------------------------------------------
\* search_leads_by_company (both variants)
\* ------------------------------------------------------------------------

DefaultTitles ==
    IF variant = "chrome"
    THEN <<"CEO", "CTO", "VP", "Director", "Manager">>
    ELSE <<"CEO", "CTO", "Founder", "VP", "Director">>

\* chrome: search_company_employees builds the query and asks for 20 results;
\* nochrome: f"site:linkedin.com/in {title} {company}", num_results=limit
CompanyQuery(company, title) ==
    IF variant = "chrome"
    THEN <<"site:linkedin.com/in/", company, title>>
    ELSE <<"site:linkedin.com/in", title, company>>

CompanyNumResults(limit) == IF variant = "chrome" THEN 20 ELSE limit

\* chrome filters results[:limit] of each search as it goes, nochrome extends
\* all_results with the whole list and filters after the loop
CompanyKeep(results, limit) ==
    IF variant = "chrome" THEN FilterProfiles(PySlice(results, limit)) ELSE results

\* the locals of search_leads_by_company(company, titles, limit) at its start
CompanyFrame(company, given, limit) ==
    [op |-> "company", company |-> company,
     titles |-> IF given = <<>> THEN DefaultTitles ELSE given,
     limit |-> limit, all_results |-> <<>>, unique_profiles |-> <<>>,
     i |-> 0, j |-> 0, leads0 |-> leads]

CompanyStart ==
    /\ pc = "idle" /\ Len(leads) < MaxLeads
    /\ \E given \in TitleLists, limit \in Limits :
         frame' = CompanyFrame(Company, given, limit)
    /\ pc' = "search"
    /\ trace' = <<>>
    /\ result' = NoResult
    /\ UNCHANGED <<hashSeed, variant, driver, leads, nlp_text, nlp_criteria>>

\* one iteration of "for title in titles"
CompanySearch ==
    /\ pc = "search" /\ frame.op = "company"
    /\ LET q == CompanyQuery(frame.company, frame.titles[frame.i + 1])
       IN  \E failed \in BOOLEAN, page \in Pages :
             LET results == SearchResults(page, failed, CompanyNumResults(frame.limit)) IN
             /\ frame' = [frame EXCEPT !.all_results = @ \o CompanyKeep(results, frame.limit),
                                       !.i = @ + 1]
             /\ trace' = Append(trace, Event("search", q, [results |-> results, failed |-> failed]))
             /\ pc' = IF frame.i + 1 = Len(frame.titles) THEN "dedup" ELSE "search"
    /\ driver' = DriverAfterSearch
    /\ UNCHANGED <<hashSeed, variant, leads, result, nlp_text, nlp_criteria>>

CompanyDedup ==
    /\ pc = "dedup" /\ frame.op = "company"
    /\ LET unique_profiles == DedupByUrl(FilterProfiles(frame.all_results))
       IN  /\ frame' = [frame EXCEPT !.unique_profiles = unique_profiles]
           /\ IF ProfilesToScrape(unique_profiles, frame.limit) = <<>>
              THEN pc' = "done" /\ result' = Returned("company", leads)
              ELSE pc' = "scrape" /\ result' = result
    /\ trace' = Append(trace, Event("dedup", <<>>, <<>>))
    /\ UNCHANGED <<hashSeed, variant, driver, leads, nlp_text, nlp_criteria>>

CompanyLead(profile_data, company) ==
    [url |-> profile_data.url, name |-> profile_data.name,
     emails |-> profile_data.emails, company |-> company]

CompanyScrape ==
    /\ pc = "scrape" /\ frame.op = "company"
    /\ LET todo == ProfilesToScrape(frame.unique_profiles, frame.limit)
           profile == todo[frame.j + 1]
       IN  \E outcome \in FetchOutcomes :
             LET lead_data == CompanyLead(ScrapeProfile(profile.url, outcome), frame.company)
             IN  /\ leads' = AppendLead(leads, lead_data)
                 /\ frame' = [frame EXCEPT !.j = @ + 1]
                 /\ trace' = Append(trace, Event("fetch", profile.url, outcome))
                 /\ IF frame.j + 1 = Len(todo)
                    THEN pc' = "done" /\ result' = Returned("company", leads')
                    ELSE pc' = "scrape" /\ result' = result
    /\ UNCHANGED <<hashSeed, variant, driver, nlp_text, nlp_criteria>>

\* ------------------------------------------------------------------------
\* LeadScraperNoChrome.scrape_linkedin_urls and
\* RequestsLinkedInScraper.scrape_multiple_profiles
\* ------------------------------------------------------------------------

\* an assignment in place of the extension (used to test C5)
ExtendReplacing(list, items) == items

\* list.extend
Extend(list, items) == list \o items

\* a batch that keeps every record (used to test C24)
KeepEveryProfile(profiles, profile_data) == Append(profiles, profile_data)

\* if profile_data.get('name'): profiles.append(profile_data)
KeepNamedProfile(profiles, profile_data) ==
    IF profile_data.name # "" THEN Append(profiles, profile_data) ELSE profiles

UrlsStart ==
    /\ pc = "idle" /\ variant = "nochrome" /\ Len(leads) < MaxLeads
    /\ \E urls \in UrlLists :
         /\ frame' = [op |-> "urls", urls |-> urls, profiles |-> <<>>, j |-> 0,
                      leads0 |-> leads]
         /\ IF urls = <<>>
            THEN pc' = "done" /\ result' = Returned("urls", <<>>)
            ELSE pc' = "scrape" /\ result' = NoResult
    /\ trace' = <<>>
    /\ UNCHANGED <<hashSeed, variant, driver, leads, nlp_text, nlp_criteria>>

\* one iteration of scrape_multiple_profiles; after the last one
\* self.leads.extend(profiles) and return profiles
UrlsScrape ==
    /\ pc = "scrape" /\ frame.op = "urls"
    /\ LET url == frame.urls[frame.j + 1]
       IN  \E outcome \in FetchOutcomes :
             LET profile_data == RequestsScrapeProfile(url, outcome)
                 profiles == KeepNamedProfile(frame.profiles, profile_data)
             IN  /\ frame' = [frame EXCEPT !.profiles = profiles, !.j = @ + 1]
                 /\ trace' = Append(trace, Event("fetch", url, outcome))
                 /\ IF frame.j + 1 = Len(frame.urls)
                    THEN /\ leads' = Extend(leads, profiles)
                         /\ pc' = "done"
                         /\ result' = Returned("urls", profiles)
                    ELSE /\ leads' = leads
                         /\ pc' = "scrape"
                         /\ result' = result
    /\ UNCHANGED <<hashSeed, variant, driver, nlp_text, nlp_criteria>>

\* ------------------------------------------------------------------------
\* clear_leads (both variants)
\* ------------------------------------------------------------------------

clear_leads ==
    /\ pc = "idle"
    /\ leads' = <<>>
    /\ UNCHANGED <<hashSeed, variant, driver, pc, frame, trace, result, nlp_text, nlp_criteria>>

\* ------------------------------------------------------------------------
\* ProfileScraper.scrape_website_for_contacts
\* ------------------------------------------------------------------------

TW_ANN == <<"https://", "twitter.com", "/", "ann">>

TW_CORP == <<"https://", "twitter.com", "/", "corp">>

GH_ANN == <<"https://", "github.com", "/", "ann">>

\* what a personal or company site can hold: the addresses in its text and
\* the href of every <a> in document order
SiteContents ==
    { [emails |-> <<ANN>>, hrefs |-> <<TW_ANN, TW_CORP>>],
      [emails |-> <<INFO, ANN_MIXED>>, hrefs |-> <<TW_CORP, GH_ANN>>] }

social_platforms ==
    << [platform |-> "linkedin", pattern |-> <<"linkedin.com", "/in/">>],
       [platform |-> "twitter", pattern |-> <<"twitter.com", "/">>],
       [platform |-> "facebook", pattern |-> <<"facebook.com", "/">>],
       [platform |-> "github", pattern |-> <<"github.com", "/">>],
       [platform |-> "instagram", pattern |-> <<"instagram.com", "/">>] >>

\* the platform whose pattern is the first to match href, None when none does
PlatformOf(href) ==
    LET Hit(entry) == Contains(href, entry.pattern)
        i == FirstIndex(social_platforms, Hit)
    IN  IF i = 0 THEN None ELSE Some(social_platforms[i].platform)

\* ProfileScraper._extract_social_links: the first link of each platform
_extract_social_links(hrefs) ==
    LET platforms == {PlatformOf(hrefs[i])[1] :
                        i \in {k \in 1..Len(hrefs) : PlatformOf(hrefs[k]) # None}}
    IN  [p \in platforms |->
            hrefs[SetMin({i \in 1..Len(hrefs) : PlatformOf(hrefs[i]) = Some(p)})]]

NoLinks == [p \in {} |-> <<>>]

\* contact_data keeps its initial empty fields when the page cannot be
\* fetched; otherwise emails come from EmailExtractor (a list made from a
\* set) and social links from the page's anchors
scrape_website_for_contacts(seed, url, failed, content) ==
    IF failed
    THEN [url |-> url, emails |-> <<>>, social_links |-> NoLinks]
    ELSE [url |-> url,
          emails |-> extract_emails(seed, content.emails, LoweredSet(content.emails)),
          social_links |-> _extract_social_links(content.hrefs)]

\* dict.update
DictUpdate(d, other) ==
    [k \in DOMAIN d \cup DOMAIN other |-> IF k \in DOMAIN other THEN other[k] ELSE d[k]]

SeqToSet(s) == {s[i] : i \in 1..Len(s)}

\* a lead that keeps every address it was given (used to test C17)
KeepAllEmails(seed, emails) == emails

\* list(set(lead_data['emails']))
UniqueEmails(seed, emails) == EmailsToList(seed, SeqToSet(emails))

\* ------------------------------------------------------------------------
\* LeadScraper.search_leads_by_name (chrome only)
\* ------------------------------------------------------------------------

NameLists == {<<"Ann Lee">>, <<"Ann Lee", "Bob Roy">>}

\* str.lower() on a URL: none of the URLs of the model has an upper-case letter
LowerUrl(url) == url

\* SearchScraper.search_linkedin_profiles: the results whose lower-cased URL
\* contains 'linkedin.com/in/'
LinkedInResults(results) ==
    LET keep == AscendingSeq({i \in 1..Len(results) : IsProfileUrl(LowerUrl(results[i].url))})
    IN  [n \in 1..Len(keep) |-> results[keep[n]]]

\* the results of search_results[:3] whose URL does not contain 'linkedin.com'
ScanTargets(search_results) ==
    LET first3 == PySlice(search_results, 3)
        keep == AscendingSeq({i \in 1..Len(first3) :
                                ~Contains(first3[i].url, <<"linkedin.com">>)})
    IN  [n \in 1..Len(keep) |-> first3[keep[n]]]

\* lead_data['social_links'].update(contact_data['social_links'])
MergeSocialLinks(social_links, found) == DictUpdate(social_links, found)

\* a scan whose findings are dropped (used to test C19)
MergeNothing(lead_data, contact_data) == lead_data

\* the merge of one website scan into the lead in progress
MergeContacts(lead_data, contact_data) ==
    [lead_data EXCEPT
        !.emails = IF contact_data.emails # <<>> THEN @ \o contact_data.emails ELSE @,
        !.social_links = IF DOMAIN contact_data.social_links # {}
                         THEN MergeSocialLinks(@, contact_data.social_links)
                         ELSE @]

\* SearchScraper.search_for_person: ' '.join of the name, the company when
\* there is one and the title when there is one
PersonQuery(name, company, title) ==
    <<name>> \o (IF company # "" THEN <<company>> ELSE <<>>)
             \o (IF title # "" THEN <<title>> ELSE <<>>)

\* SearchScraper.search_linkedin_profiles: the site prefix, the name and the
\* company when there is one
LinkedInProfileQuery(name, company) ==
    <<"site:linkedin.com/in/", name>> \o (IF company # "" THEN <<company>> ELSE <<>>)

\* the locals of search_leads_by_name(names, company, title) at its start
NameFrame(names, company, title) ==
    [op |-> "name", names |-> names, company |-> company, title |-> title,
     n |-> 0, k |-> 0, search_results |-> <<>>, lead_data |-> <<>>,
     leads0 |-> leads]

NameStart ==
    /\ pc = "idle" /\ variant = "chrome"
    /\ \E names \in NameLists :
         /\ Len(leads) + Len(names) <= MaxLeads
         /\ frame' = NameFrame(names, Company, "")
    /\ pc' = "person"
    /\ trace' = <<>>
    /\ result' = NoResult
    /\ UNCHANGED <<hashSeed, variant, driver, leads, nlp_text, nlp_criteria>>

\* lead_data = {...}; search_results = search_for_person(name, company, title)
NamePersonSearch ==
    /\ pc = "person"
    /\ LET name == frame.names[frame.n + 1]
           q == PersonQuery(name, frame.company, frame.title)
       IN  \E failed \in BOOLEAN, page \in Pages :
             LET search_results == GoogleSearch(page, failed, 10) IN
             /\ frame' = [frame EXCEPT
                    !.search_results = search_results,
                    !.k = 0,
                    !.lead_data = [name |-> name, company |-> frame.company,
                                   title |-> frame.title, linkedin_url |-> None,
                                   emails |-> <<>>, social_links |-> NoLinks]]
             /\ trace' = Append(trace, Event("search", q,
                                    [results |-> search_results, failed |-> failed]))
    /\ pc' = "linkedin"
    /\ driver' = DriverAfterSearch
    /\ UNCHANGED <<hashSeed, variant, leads, result, nlp_text, nlp_criteria>>

\* linkedin_results = search_linkedin_profiles(name, company); when there is
\* one, scrape_profile(linkedin_results[0]['url']) and lead_data.update(...)
NameLinkedIn ==
    /\ pc = "linkedin"
    /\ LET name == frame.names[frame.n + 1]
           q == LinkedInProfileQuery(name, frame.company)
       IN  \E failed \in BOOLEAN, page \in Pages, outcome \in FetchOutcomes :
             LET results == GoogleSearch(page, failed, 10)
                 linkedin_results == LinkedInResults(results)
                 searched == Event("search", q, [results |-> results, failed |-> failed])
             IN  IF linkedin_results = <<>>
                 THEN /\ outcome = "error"
                      /\ frame' = frame
                      /\ trace' = Append(trace, searched)
                 ELSE LET linkedin_url == linkedin_results[1].url
                          profile_data == SeleniumScrapeProfile(hashSeed, linkedin_url, outcome)
                      IN  /\ frame' = [frame EXCEPT
                                !.lead_data = [@ EXCEPT !.linkedin_url = Some(linkedin_url),
                                                        !.emails = profile_data.emails]]
                          /\ trace' = trace \o <<searched, Event("fetch", linkedin_url, outcome)>>
    /\ pc' = IF ScanTargets(frame.search_results) = <<>> THEN "append" ELSE "scan"
    /\ driver' = DriverAfterSearch
    /\ UNCHANGED <<hashSeed, variant, leads, result, nlp_text, nlp_criteria>>

\* one website-contact scan of "for result in search_results[:3]"
NameScan ==
    /\ pc = "scan"
    /\ LET targets == ScanTargets(frame.search_results)
           url == targets[frame.k + 1].url
       IN  \E failed \in BOOLEAN, content \in SiteContents :
             LET contact_data == scrape_website_for_contacts(hashSeed, url, failed, content)
             IN  /\ frame' = [frame EXCEPT !.lead_data = MergeContacts(@, contact_data),
                                           !.k = @ + 1]
                 /\ trace' = Append(trace, Event("scan", url, contact_data))
                 /\ pc' = IF frame.k + 1 = Len(targets) THEN "append" ELSE "scan"
    /\ UNCHANGED <<hashSeed, variant, driver, leads, result, nlp_text, nlp_criteria>>

\* lead_data['emails'] = list(set(lead_data['emails'])); self.leads.append(lead_data)
NameAppend ==
    /\ pc = "append"
    /\ LET lead_data == [frame.lead_data EXCEPT
                            !.emails = UniqueEmails(hashSeed, @)]
       IN  /\ leads' = Append(leads, lead_data)
           /\ frame' = [frame EXCEPT !.lead_data = lead_data, !.n = @ + 1]
           /\ IF frame.n + 1 = Len(frame.names)
              THEN pc' = "done" /\ result' = Returned("name", leads')
              ELSE pc' = "person" /\ result' = result
    /\ UNCHANGED <<hashSeed, variant, driver, trace, nlp_text, nlp_criteria>>

\* ------------------------------------------------------------------------
\* The session: one scraper object, its methods called one after another
\* ------------------------------------------------------------------------

Init ==
    /\ hashSeed \in Seeds
    /\ variant \in {"chrome", "nochrome"}
    /\ driver = FALSE
    /\ leads = <<>>
    /\ pc = "idle"
    /\ frame = NoFrame
    /\ trace = <<>>
    /\ result = NoResult
    /\ nlp_text = <<>>
    /\ nlp_criteria = None

\* the method hands its result (or its exception) to the caller; its locals
\* are gone
Return ==
    /\ pc = "done"
    /\ pc' = "idle"
    /\ frame' = NoFrame
    /\ trace' = <<>>
    /\ result' = NoResult
    /\ UNCHANGED <<hashSeed, variant, driver, leads, nlp_text, nlp_criteria>>

Next ==
    \/ NLStart \/ NLSearch \/ NLDedup \/ NLScrape
    \/ CompanyStart \/ CompanySearch \/ CompanyDedup \/ CompanyScrape
    \/ UrlsStart \/ UrlsScrape
    \/ NameStart \/ NamePersonSearch \/ NameLinkedIn \/ NameScan \/ NameAppend
    \/ SearchRaises \/ Return
    \/ clear_leads

Spec == Init /\ [][Next]_vars

\* ------------------------------------------------------------------------
\* NLPExtractor on its own: extract_criteria applied to a text
\* ------------------------------------------------------------------------

Phrases ==
    { <<W("since"), N(1999)>>,
      <<W("since"), N(2030)>>,
      <<W("founded"), W("in"), N(2010)>>,
      <<W("started"), W("in"), N(20301)>>,
      <<W("in"), W("the"), W("last"), N(2), W("years")>>,
      <<W("in"), W("last"), N(3000), W("years")>>,
      <<W("within"), N(1), W("year")>>,
      <<N(2), Dash, N(5), W("employees")>>,
      <<N(5), Dash, N(2), W("employees")>>,
      <<W("team"), W("of"), N(3)>>,
      <<W("team"), W("of"), N(5), Dash, N(2)>>,
      <<N(2), W("to"), N(5), W("people")>>,
      <<N(5), W("to"), N(2), W("employees")>>,
      <<N(10), W("people")>>,
      <<N(3), W("team"), W("members")>>,
      <<W("Founders")>>,
      <<W("cto")>>,
      <<W("startups")>>,
      <<W("fintech")>>,
      <<W("berlin")>>,
      <<W("the")>> }

\* the texts made of at most n phrases
RECURSIVE TextsOf(_)
TextsOf(n) ==
    IF n = 0 THEN {<<>>}
    ELSE LET shorter == TextsOf(n - 1)
         IN  shorter \cup {t \o p : t \in shorter, p \in Phrases}

Texts == TextsOf(MaxPhrases)

InitNLP ==
    /\ hashSeed \in Seeds
    /\ variant = "nochrome"
    /\ driver = FALSE
    /\ leads = <<>>
    /\ pc = "idle"
    /\ frame = NoFrame
    /\ trace = <<>>
    /\ result = NoResult
    /\ nlp_text = <<>>
    /\ nlp_criteria = None

\* criteria = NLPExtractor.extract_criteria(query)
Extract ==
    /\ nlp_criteria = None
    /\ \E text \in Texts :
         /\ nlp_text' = text
         /\ nlp_criteria' = Some(extract_criteria(hashSeed, text))
    /\ UNCHANGED <<hashSeed, variant, driver, leads, pc, frame, trace, result>>

NextNLP == Extract

SpecNLP == InitNLP /\ [][NextNLP]_vars

\* ------------------------------------------------------------------------
\* NLPExtractor.generate_search_queries on its own: the plan for a criteria
\* dictionary
\* ------------------------------------------------------------------------

\* a criteria dictionary holds at most this many positions
MaxPositions == 4

\* ... and at most this many keywords
MaxKeywords == 6

PlanTitles == {"Founder", "Ceo", "Cto", "Vice President"}

PlanKeywords == <<"tech", "founder", "startup", "berlin", "find", "people">>

\* the sequences over S of length at most n
RECURSIVE SeqsUpTo(_, _)
SeqsUpTo(S, n) ==
    IF n = 0 THEN {<<>>}
    ELSE LET shorter == SeqsUpTo(S, n - 1)
         IN  shorter \cup {Append(s, x) : s \in shorter, x \in S}

KeywordLists ==
    {SubSeq(PlanKeywords, 1, n) : n \in 0..Min(MaxKeywords, Len(PlanKeywords))}

CriteriaInputs ==
    { [original_query |-> <<>>,
       positions |-> positions,
       company_type |-> company_type,
       industry |-> industry,
       location |-> location,
       team_size |-> None,
       founding_year |-> None,
       keywords |-> keywords] :
        positions \in SeqsUpTo(PlanTitles, MaxPositions),
        company_type \in {None, Some("startup")},
        industry \in {None, Some("fintech")},
        location \in {None, Some("San Francisco")},
        keywords \in KeywordLists }

InitPlan ==
    /\ hashSeed \in Seeds
    /\ variant = "nochrome"
    /\ driver = FALSE
    /\ leads = <<>>
    /\ pc = "idle"
    /\ frame = NoFrame
    /\ trace = <<>>
    /\ result = NoResult
    /\ nlp_text = <<>>
    /\ nlp_criteria \in {Some(criteria) : criteria \in CriteriaInputs}

\* search_queries = NLPExtractor.generate_search_queries(criteria)
Plan ==
    /\ nlp_criteria # None
    /\ result = NoResult
    /\ result' = [op |-> "plan", status |-> "returned",
                  value |-> generate_search_queries(nlp_criteria[1])]
    /\ UNCHANGED <<hashSeed, variant, driver, leads, pc, frame, trace, nlp_text, nlp_criteria>>

NextPlan == Plan

SpecPlan == InitPlan /\ [][NextPlan]_vars

\* ------------------------------------------------------------------------
\* EmailExtractor.extract_emails on its own
\* ------------------------------------------------------------------------

\* a text holds at most this many address matches
MaxAddresses == 2

FoundAddresses ==
    {ANN_MIXED, ANN, INFO, LOGO_2X, ICON_3X, PHOTO_JPG, BOB_EXAMPLE, JOE_MYTEST,
     ERR_SENTRY}

EmailTexts == SeqsUpTo(FoundAddresses, MaxAddresses)

InitEmail ==
    /\ hashSeed \in Seeds
    /\ variant = "nochrome"
    /\ driver = FALSE
    /\ leads = <<>>
    /\ pc = "idle"
    /\ frame = NoFrame
    /\ trace = <<>>
    /\ result = NoResult
    /\ nlp_text \in EmailTexts
    /\ nlp_criteria = None

\* emails = EmailExtractor.extract_emails(text)
ExtractEmails ==
    /\ result = NoResult
    /\ \E valid \in SUBSET LoweredSet(nlp_text) :
         result' = [op |-> "emails", status |-> "returned",
                    value |-> extract_emails(hashSeed, nlp_text, valid)]
    /\ UNCHANGED <<hashSeed, variant, driver, leads, pc, frame, trace, nlp_text, nlp_criteria>>

NextEmail == ExtractEmails

SpecEmail == InitEmail /\ [][NextEmail]_vars

\* ------------------------------------------------------------------------
\* Properties
\* ------------------------------------------------------------------------

IsPrefix(s, t) == Len(s) <= Len(t) /\ SubSeq(t, 1, Len(s)) = s

IsSearchEvent(ev) == ev.e = "search"

IsFetchEvent(ev) == ev.e = "fetch"

SearchEvents == SelectSeq(trace, IsSearchEvent)

FetchEvents == SelectSeq(trace, IsFetchEvent)

RECURSIVE ConcatResults(_)
ConcatResults(events) ==
    IF events = <<>> THEN <<>>
    ELSE Head(events).out.results \o ConcatResults(Tail(events))

\* a natural-language or by-company run is in progress or has just ended
InPipeline == frame.op \in {"nl", "company"}

DedupDone == InPipeline /\ \E i \in 1..Len(trace) : trace[i].e = "dedup"

\* the places of the profile results in the concatenated search results
ProfileIdx == {i \in 1..Len(frame.all_results) : IsProfileUrl(frame.all_results[i].url)}

\* C1: after the deduplication step of a natural-language or by-company run
\* every profile URL of the concatenated search results occurs in exactly one
\* retained result, and every retained result is the LAST result of the
\* concatenation that carries its URL.
C1_DedupKeepsLastPerUrl ==
    DedupDone =>
        LET all == frame.all_results
            uniq == frame.unique_profiles
        IN  /\ \A i \in ProfileIdx :
                 Cardinality({n \in 1..Len(uniq) : uniq[n].url = all[i].url}) = 1
            /\ \A n \in 1..Len(uniq) :
                 \E i \in ProfileIdx :
                    /\ uniq[n] = all[i]
                    /\ \A k \in ProfileIdx : k > i => all[k].url # all[i].url

\* a deduplication that met one URL twice, with different titles
C1_Witness ==
    /\ DedupDone
    /\ \E i, k \in ProfileIdx :
          /\ i < k
          /\ frame.all_results[i].url = frame.all_results[k].url
          /\ frame.all_results[i] # frame.all_results[k]

\* the place of the last search event of the trace, 0 when there is none
LastSearchIndex ==
    LET S == {i \in 1..Len(trace) : trace[i].e = "search"}
    IN  IF S = {} THEN 0 ELSE CHOOSE i \in S : \A j \in S : j <= i

\* the website-contact scans made so far for the name in progress
ScansOfName == {i \in (LastSearchIndex + 1)..Len(trace) : trace[i].e = "scan"}

\* C2: in search_leads_by_name, every platform of the in-progress lead's
\* social_links holds the link found by the FIRST scan of this name that
\* found a link for that platform: a later scan never replaces it.
C2_SocialLinksNeverOverwritten ==
    (frame.op = "name" /\ pc \in {"scan", "append"}) =>
        \A p \in DOMAIN frame.lead_data.social_links :
            LET writers == {i \in ScansOfName : p \in DOMAIN trace[i].out.social_links}
            IN  /\ writers # {}
                /\ frame.lead_data.social_links[p]
                      = trace[SetMin(writers)].out.social_links[p]

\* the number of searches a finished pipeline run was to make
PlannedSearches ==
    IF frame.op = "nl" THEN Min(3, Len(frame.search_queries)) ELSE Len(frame.titles)

\* C3: a pipeline run (natural-language or by-company, either variant) always
\* ends by returning the lead collection, having searched every planned query
\* (up to the cap) and fetched every selected URL, whatever failed on the way.
C3_FailuresNeverAbortTheRun ==
    (pc = "done" /\ InPipeline) =>
        /\ result.status = "returned"
        /\ Len(SearchEvents) = PlannedSearches
        /\ Len(FetchEvents) = Len(ProfilesToScrape(frame.unique_profiles, frame.limit))

\* a natural-language run for a query from which nothing was extracted
EmptyCriteriaRun ==
    /\ frame.op = "nl"
    /\ frame.criteria.positions = <<>>
    /\ frame.criteria.keywords = <<>>

\* C4: a natural-language run for which neither positions nor keywords were
\* extracted has an empty plan, makes no search call and no fetch call,
\* leaves the lead collection as it was, and returns that collection.
C4_EmptyPlanRunChangesNothing ==
    EmptyCriteriaRun =>
        /\ frame.search_queries = <<>>
        /\ SearchEvents = <<>>
        /\ FetchEvents = <<>>
        /\ leads = frame.leads0
        /\ pc = "done" => (result.status = "returned" /\ result.value = frame.leads0)

\* an empty-plan run that ended in a session that already holds leads
C4_Witness ==
    /\ EmptyCriteriaRun
    /\ pc = "done"
    /\ result.status = "returned"
    /\ leads # <<>>

\* C5: in every step other than clear_leads the lead collection before the
\* step is a prefix of the lead collection after it.
C5_LeadsOnlyGrow == [][clear_leads \/ IsPrefix(leads, leads')]_vars

\* a run that started with leads in the collection and added to them
C5_Witness ==
    /\ pc = "done"
    /\ frame.op \in {"nl", "company", "urls", "name"}
    /\ frame.leads0 # <<>>
    /\ Len(leads) > Len(frame.leads0)

\* C6: a finished natural-language run has searched exactly the first
\* min(3, length of plan) planned queries, once each and in plan order, and
\* its concatenated results are the results of those searches in that order.
C6_SearchesFirstThreeInOrder ==
    (pc = "done" /\ frame.op = "nl") =>
        LET n == Min(3, Len(frame.search_queries))
        IN  /\ Len(SearchEvents) = n
            /\ \A k \in 1..n : SearchEvents[k].arg = frame.search_queries[k]
            /\ frame.all_results = ConcatResults(SearchEvents)

\* C7: a pipeline run fetches at most `limit` URLs, the k-th fetch is of the
\* k-th entry of the deduplicated list, and every fetched URL contains
\* 'linkedin.com/in/'.
C7_FetchesAtMostLimit ==
    InPipeline =>
        /\ Len(FetchEvents) <= frame.limit
        /\ \A k \in 1..Len(FetchEvents) :
              /\ k <= Len(frame.unique_profiles)
              /\ FetchEvents[k].arg = frame.unique_profiles[k].url
              /\ IsProfileUrl(FetchEvents[k].arg)

\* C8: in a pipeline run every search comes before the deduplication, the
\* deduplication happens once and before every fetch, no search follows a
\* fetch, and the list a run returns starts with the leads of earlier runs.
C8_PhasesInOrder ==
    InPipeline =>
        /\ \A i, j \in 1..Len(trace) :
              (i < j /\ trace[i].e \in {"dedup", "fetch"}) => trace[j].e = "fetch"
        /\ \A j \in 1..Len(trace) :
              trace[j].e = "fetch" => \E i \in 1..(j - 1) : trace[i].e = "dedup"
        /\ (pc \in {"search", "dedup", "scrape", "done"})
        /\ (pc = "search") => (\A i \in 1..Len(trace) : trace[i].e = "search")
        /\ (pc = "scrape") => DedupDone
        /\ (pc = "done" /\ result.status = "returned") =>
              (DedupDone /\ IsPrefix(frame.leads0, result.value))

\* a later run that searched, deduplicated, fetched and returned
C8_Witness ==
    /\ InPipeline
    /\ pc = "done"
    /\ result.status = "returned"
    /\ frame.leads0 # <<>>
    /\ SearchEvents # <<>>
    /\ FetchEvents # <<>>

\* C9: whenever extract_criteria returns a founding_year, its min is at most
\* its max.
C9_FoundingYearMinAtMostMax ==
    (nlp_criteria # None /\ nlp_criteria[1].founding_year # None) =>
        nlp_criteria[1].founding_year[1].min <= nlp_criteria[1].founding_year[1].max

\* the number lexemes of a text
NumbersIn(text) == {i \in 1..Len(text) : IsNum(text[i])}

\* C10: whenever extract_criteria returns a team_size, its min is at most its
\* max, and a text with a single number yields min = max.
C10_TeamSizeMinAtMostMax ==
    (nlp_criteria # None /\ nlp_criteria[1].team_size # None) =>
        /\ nlp_criteria[1].team_size[1].min <= nlp_criteria[1].team_size[1].max
        /\ Cardinality(NumbersIn(nlp_text)) = 1 =>
              nlp_criteria[1].team_size[1].min = nlp_criteria[1].team_size[1].max

\* ------------------------------------------------------------------------
\* LeadScraper.search_leads_by_criteria and main.py
\* ------------------------------------------------------------------------

\* a criteria dictionary is a function from its keys to their values
EmptyDict == <<>>

\* dict.get(key, default)
Get(d, key, default) == IF key \in DOMAIN d THEN d[key] ELSE default

\* the dictionaries a caller or a config file can give
CriteriaDicts ==
    { EmptyDict,
      [limit |-> 10],
      [titles |-> <<"CEO">>, limit |-> 10],
      [names |-> <<>>, company |-> "", limit |-> 2],
      [names |-> <<"Ann Lee">>, limit |-> 10],
      [names |-> <<"Ann Lee">>, company |-> "Corp", titles |-> <<"CEO", "CTO">>, limit |-> 0],
      [company |-> "Corp"],
      [company |-> "Corp", titles |-> <<"CEO">>, limit |-> 1],
      [company |-> "Corp", titles |-> <<"CEO", "CTO">>, limit |-> 0] }

\* the dispatch of search_leads_by_criteria that leaves out the names test
\* (used to test C30)
DispatchCompanyFirst(criteria) ==
    IF Get(criteria, "company", "") # "" THEN "company"
    ELSE IF Get(criteria, "names", <<>>) # <<>> THEN "name"
    ELSE "none"

\* which branch of search_leads_by_criteria a dictionary takes
Dispatch(criteria) ==
    IF Get(criteria, "names", <<>>) # <<>> THEN "name"
    ELSE IF Get(criteria, "company", "") # "" THEN "company"
    ELSE "none"

\* criteria.get('titles', [''])[0] if criteria.get('titles') else ''
FirstTitle(criteria) ==
    IF Get(criteria, "titles", <<>>) # <<>> THEN criteria.titles[1] ELSE ""

\* search_leads_by_criteria(criteria): the call of the by-name or of the
\* by-company method with the arguments taken from the dictionary, or the
\* immediate return of []
search_leads_by_criteria(criteria) ==
    /\ CASE Dispatch(criteria) = "name" ->
              /\ frame' = NameFrame(criteria.names, Get(criteria, "company", ""),
                                    FirstTitle(criteria))
                             @@ [criteria |-> criteria]
              /\ pc' = "person"
              /\ result' = NoResult
         [] Dispatch(criteria) = "company" ->
              /\ frame' = CompanyFrame(criteria.company, Get(criteria, "titles", <<>>),
                                       Get(criteria, "limit", 10))
                             @@ [criteria |-> criteria]
              /\ pc' = "search"
              /\ result' = NoResult
         [] OTHER ->
              /\ frame' = [op |-> "criteria", criteria |-> criteria, leads0 |-> leads]
              /\ pc' = "done"
              /\ result' = Returned("criteria", <<>>)
    /\ trace' = <<>>
    /\ UNCHANGED <<hashSeed, variant, driver, leads, nlp_text, nlp_criteria>>

CriteriaStart ==
    /\ pc = "idle" /\ variant = "chrome"
    /\ \E criteria \in CriteriaDicts :
         /\ Len(leads) + Len(Get(criteria, "names", <<>>)) <= MaxLeads
         /\ Dispatch(criteria) = "company" => Len(leads) < MaxLeads
         /\ search_leads_by_criteria(criteria)

InitCriteria ==
    /\ hashSeed \in Seeds
    /\ variant = "chrome"
    /\ driver = FALSE
    /\ leads = <<>>
    /\ pc = "idle"
    /\ frame = NoFrame
    /\ trace = <<>>
    /\ result = NoResult
    /\ nlp_text = <<>>
    /\ nlp_criteria = None

NextCriteria ==
    \/ CriteriaStart
    \/ CompanySearch \/ CompanyDedup \/ CompanyScrape
    \/ NamePersonSearch \/ NameLinkedIn \/ NameScan \/ NameAppend
    \/ SearchRaises \/ Return

SpecCriteria == InitCriteria /\ [][NextCriteria]_vars

\* ------------------------------------------------------------------------
\* main.py: one run of the command-line tool
\* ------------------------------------------------------------------------

\* what the command line gives: a config file that cannot be read or parsed,
\* a config file holding a dictionary, or search options (args.limit is
\* always set, and only non-empty options enter the dictionary)
MainInputs ==
    {[source |-> "unreadable"]}
        \cup {[source |-> "config", criteria |-> c] : c \in CriteriaDicts}
        \cup {[source |-> "args", criteria |-> c] :
                 c \in {d \in CriteriaDicts :
                           /\ "limit" \in DOMAIN d
                           /\ Get(d, "names", <<"x">>) # <<>>
                           /\ Get(d, "company", "x") # ""}}

\* how the process ends: its exit status, what it reported and the file it
\* wrote; leads is what search_leads_by_criteria returned, None before it
Exit(code, report, output_file, returned) ==
    [op |-> "main", status |-> "exit", code |-> code, report |-> report,
     output_file |-> output_file, leads |-> returned]

\* a report that treats an empty result as a failure (used to test C21)
ReportEmptyAsError(returned) ==
    IF returned = <<>>
    THEN Exit(1, "Error", None, Some(returned))
    ELSE Exit(0, "Found leads", Some("leads"), Some(returned))

\* main after the search: "No leads found." and return, or the summary and
\* export_leads
Report(returned) ==
    IF returned = <<>>
    THEN Exit(0, "No leads found", None, Some(returned))
    ELSE Exit(0, "Found leads", Some("leads"), Some(returned))

\* main up to the call of scraper.search_leads_by_criteria(criteria)
Main ==
    /\ pc = "main"
    /\ \E input \in MainInputs :
         IF input.source = "unreadable"
         THEN /\ pc' = "exit"
              /\ result' = Exit(1, "Error loading config file", None, None)
              /\ frame' = [op |-> "main", input |-> input]
              /\ UNCHANGED <<hashSeed, variant, driver, leads, trace, nlp_text, nlp_criteria>>
         ELSE IF input.criteria = EmptyDict
         THEN /\ pc' = "exit"
              /\ result' = Exit(1, "No search criteria provided", None, None)
              /\ frame' = [op |-> "main", input |-> input]
              /\ UNCHANGED <<hashSeed, variant, driver, leads, trace, nlp_text, nlp_criteria>>
         ELSE search_leads_by_criteria(input.criteria)

\* the search came back (or raised): the rest of main
MainReport ==
    /\ pc = "done"
    /\ pc' = "exit"
    /\ result' = IF result.status = "raised"
                 THEN Exit(1, "Traceback", None, None)
                 ELSE Report(result.value)
    /\ UNCHANGED <<hashSeed, variant, driver, leads, frame, trace, nlp_text, nlp_criteria>>

InitMain ==
    /\ hashSeed \in Seeds
    /\ variant = "chrome"
    /\ driver = FALSE
    /\ leads = <<>>
    /\ pc = "main"
    /\ frame = NoFrame
    /\ trace = <<>>
    /\ result = NoResult
    /\ nlp_text = <<>>
    /\ nlp_criteria = None

NextMain ==
    \/ Main
    \/ CompanySearch \/ CompanyDedup \/ CompanyScrape
    \/ NamePersonSearch \/ NameLinkedIn \/ NameScan \/ NameAppend
    \/ SearchRaises
    \/ MainReport

SpecMain == InitMain /\ [][NextMain]_vars

\* ------------------------------------------------------------------------
\* DataExporter.export_summary
\* ------------------------------------------------------------------------

MaxSummaryLeads == 3

\* leads as the flows build them: by-name leads with and without a LinkedIn
\* profile (company is '' when the caller gave none), by-company leads, and
\* natural-language leads (no 'company' key)
SummaryLeads ==
    { [name |-> "Ann Lee", company |-> "", linkedin_url |-> None, emails |-> <<>>],
      [name |-> "Ann Lee", company |-> "", linkedin_url |-> Some(PA),
       current_company |-> "Acme", emails |-> <<ANN>>],
      [name |-> "Bob Roy", company |-> "", linkedin_url |-> Some(PB),
       current_company |-> "Bolt", emails |-> <<>>],
      [name |-> "Bob Roy", company |-> "Corp", linkedin_url |-> None,
       emails |-> <<INFO, ANN>>],
      [name |-> "Ann", url |-> PA, company |-> "Corp", current_company |-> "Acme",
       emails |-> <<ANN>>],
      [name |-> "", url |-> PB, current_company |-> "", emails |-> <<>>],
      [name |-> "Bob", url |-> PB, current_company |-> "Bolt", emails |-> <<>>] }

RECURSIVE SumOfLengths(_)
SumOfLengths(lists) ==
    IF lists = <<>> THEN 0 ELSE Len(Head(lists)) + SumOfLengths(Tail(lists))

\* l.get('company', l.get('current_company', ''))
CompanyShown(l) == Get(l, "company", Get(l, "current_company", ""))

\* l.get('company') or l.get('current_company')
HasCompany(l) == Get(l, "company", "") # "" \/ Get(l, "current_company", "") # ""

export_summary(ls) ==
    [total_leads |-> Len(ls),
     leads_with_emails |-> Cardinality({i \in 1..Len(ls) : Get(ls[i], "emails", <<>>) # <<>>}),
     leads_with_linkedin |->
        Cardinality({i \in 1..Len(ls) : \/ Get(ls[i], "linkedin_url", None) # None
                                  \/ Get(ls[i], "url", <<>>) # <<>>}),
     unique_companies |->
        Cardinality({CompanyShown(ls[i]) : i \in {j \in 1..Len(ls) : HasCompany(ls[j])}}),
     total_emails |-> SumOfLengths([i \in 1..Len(ls) |-> Get(ls[i], "emails", <<>>)])]

InitSummary ==
    /\ hashSeed = 0
    /\ variant = "chrome"
    /\ driver = FALSE
    /\ leads \in SeqsUpTo(SummaryLeads, MaxSummaryLeads)
    /\ pc = "idle"
    /\ frame = NoFrame
    /\ trace = <<>>
    /\ result = NoResult
    /\ nlp_text = <<>>
    /\ nlp_criteria = None

\* summary = exporter.export_summary(leads)
Summarise ==
    /\ pc = "idle"
    /\ pc' = "done"
    /\ result' = Returned("summary", export_summary(leads))
    /\ frame' = [op |-> "summary", leads0 |-> leads]
    /\ UNCHANGED <<hashSeed, variant, driver, leads, trace, nlp_text, nlp_criteria>>

NextSummary == Summarise

SpecSummary == InitSummary /\ [][NextSummary]_vars

\* C11: the criteria extracted from a text, and the plan made from them, are
\* the same whatever the hash seed of the process that evaluates them.
C11_ExtractionIsDeterministic ==
    nlp_criteria # None =>
        \A seed \in Seeds :
            /\ extract_criteria(seed, nlp_text) = nlp_criteria[1]
            /\ generate_search_queries(extract_criteria(seed, nlp_text))
                  = generate_search_queries(nlp_criteria[1])

\* generate_search_queries has returned the plan for nlp_criteria
Planned == result.op = "plan" /\ result.status = "returned"

\* the optional field as a list of query parts: nothing when absent
Part(field) == IF field = None THEN <<>> ELSE <<field[1]>>

\* C12: when positions is not empty, for each i up to min(3, number of
\* positions) the i-th query of the plan is the i-th position followed by
\* company_type, industry and location, in that order, each only if present.
C12_PositionQueriesInOrder ==
    (Planned /\ nlp_criteria[1].positions # <<>>) =>
        LET c == nlp_criteria[1]
        IN  \A i \in 1..Min(3, Len(c.positions)) :
               /\ i <= Len(result.value)
               /\ result.value[i] = <<c.positions[i]>> \o Part(c.company_type)
                                        \o Part(c.industry) \o Part(c.location)

\* positions=['Founder'], company_type='startup', location='San Francisco'
\* gave the first query 'Founder startup San Francisco'
C12_Witness ==
    /\ Planned
    /\ nlp_criteria[1].positions = <<"Founder">>
    /\ nlp_criteria[1].company_type = Some("startup")
    /\ nlp_criteria[1].industry = None
    /\ nlp_criteria[1].location = Some("San Francisco")
    /\ result.value[1] = <<"Founder", "startup", "San Francisco">>

\* the number of entries of a plan made from positions
StructuredLength(c) ==
    Min(3, Len(c.positions)) + (IF c.company_type # None THEN 1 ELSE 0)

\* C13: with no positions and some keywords the plan is exactly one query,
\* the first min(5, number of keywords) keywords, whatever company_type,
\* industry and location are; with positions the plan holds the structured
\* queries only, none of them the keyword query.
C13_KeywordFallback ==
    Planned =>
        LET c == nlp_criteria[1]
            fallback == SubSeq(c.keywords, 1, Min(5, Len(c.keywords)))
        IN  /\ (c.positions = <<>> /\ c.keywords # <<>>) => result.value = <<fallback>>
            /\ c.positions # <<>> =>
                  /\ Len(result.value) = StructuredLength(c)
                  /\ \A i \in 1..Len(result.value) : result.value[i] # fallback

\* a plan made from more than five keywords, with a company type given
C13_Witness ==
    /\ Planned
    /\ nlp_criteria[1].positions = <<>>
    /\ Len(nlp_criteria[1].keywords) > 5
    /\ nlp_criteria[1].company_type # None
    /\ Len(result.value) = 1

\* C14: a plan has at most 5 queries, and it is empty exactly when positions
\* and keywords are both empty.
C14_AtMostFiveQueries ==
    Planned =>
        /\ Len(result.value) <= 5
        /\ result.value = <<>> <=>
              (nlp_criteria[1].positions = <<>> /\ nlp_criteria[1].keywords = <<>>)

\* the longest plan: more than three positions and a company type
C14_Witness ==
    /\ Planned
    /\ Len(nlp_criteria[1].positions) > 3
    /\ nlp_criteria[1].company_type # None
    /\ Len(result.value) = 4

\* the places of the profile-site-qualified queries in a plan
SiteQueries(plan) == {i \in 1..Len(plan) : plan[i][1] = "site:linkedin.com/in/"}

\* C15: the plan holds the profile-site-qualified query (first position,
\* company_type, industry if present) exactly when positions is not empty and
\* company_type is present; it is then the last entry, occurs once, and comes
\* after every position query.
C15_SiteQueryOnceAndLast ==
    Planned =>
        LET c == nlp_criteria[1]
            plan == result.value
        IN  IF c.positions # <<>> /\ c.company_type # None
            THEN /\ SiteQueries(plan) = {Len(plan)}
                 /\ Len(plan) = Min(3, Len(c.positions)) + 1
                 /\ plan[Len(plan)] = <<"site:linkedin.com/in/", c.positions[1]>>
                                          \o Part(c.company_type) \o Part(c.industry)
            ELSE SiteQueries(plan) = {}

\* a plan of three position queries followed by the profile-site query
C15_Witness ==
    /\ Planned
    /\ Len(nlp_criteria[1].positions) >= 3
    /\ nlp_criteria[1].company_type # None
    /\ nlp_criteria[1].industry # None
    /\ SiteQueries(result.value) = {4}

\* an address holds no upper-case chunk
IsLowerCase(email) == LowerAddr(email) = email

NoDuplicatesIgnoringCase(emails) ==
    \A i, j \in 1..Len(emails) :
        LowerAddr(emails[i]) = LowerAddr(emails[j]) => i = j

\* C16: extract_emails returns lower-case addresses only, none of them
\* matching an exclusion pattern, and no two of them equal ignoring case.
C16_EmailsLowerCleanUnique ==
    (result.op = "emails" /\ result.status = "returned") =>
        /\ \A i \in 1..Len(result.value) :
              /\ IsLowerCase(result.value[i])
              /\ ~Excluded(result.value[i])
        /\ NoDuplicatesIgnoringCase(result.value)

\* a text with the same address in two spellings, of which one came back
C16_Witness ==
    /\ result.op = "emails"
    /\ result.status = "returned"
    /\ nlp_text = <<ANN_MIXED, ANN>>
    /\ result.value = <<ANN>>

\* C17: in every collected lead, by-name leads (LinkedIn profile addresses
\* plus the addresses of the scanned sites) included, no two entries of
\* the emails field are equal ignoring case.
C17_LeadEmailsUniqueIgnoringCase ==
    \A i \in 1..Len(leads) : NoDuplicatesIgnoringCase(leads[i].emails)

\* a by-name lead whose profile and whose scanned sites gave the same
\* address, once written in mixed case, was appended with one copy of it
C17_Witness ==
    /\ frame # NoFrame
    /\ frame.op = "name"
    /\ pc \in {"person", "done"}
    /\ \E e \in 1..Len(trace) :
          /\ trace[e].e = "fetch"
          /\ trace[e].out = "ok"
          /\ trace[e].arg = PA
    /\ \E e \in 1..Len(trace) :
          /\ trace[e].e = "scan"
          /\ trace[e].out.emails = <<ANN>>
    /\ \E e \in 1..Len(trace) :
          /\ trace[e].e = "scan"
          /\ Len(trace[e].out.emails) = 2
    /\ Len(frame.lead_data.emails) = 2
    /\ leads[Len(leads)] = frame.lead_data

\* C18: the record scrape_profile returns for a failed fetch (exception,
\* non-200 status, empty page) differs from the record it returns for a
\* fetched page of the same URL that holds no extractable data.
C18_FailedFetchDistinguishable ==
    \A e \in 1..Len(trace) :
        (trace[e].e = "fetch" /\ trace[e].out = "error") =>
            ScrapeProfile(trace[e].arg, "error") # ScrapeProfile(trace[e].arg, "empty")

\* the fetch events made so far for the name in progress
FetchesOfName == {i \in (LastSearchIndex + 1)..Len(trace) : trace[i].e = "fetch"}

\* the addresses the profile scrape of the name in progress gave
ProfileEmailsOfName ==
    UNION {SeqToSet(SeleniumScrapeProfile(hashSeed, trace[i].arg, trace[i].out).emails) :
              i \in FetchesOfName}

\* the addresses the website-contact scans of the name in progress gave
SiteEmailsOfName == UNION {SeqToSet(trace[i].out.emails) : i \in ScansOfName}

\* both searches, the profile scrape and every scan of the name in progress
\* have been made
NameWorkFinished ==
    LET name == frame.names[frame.n + 1]
        l == LastSearchIndex
    IN  /\ l >= 2
        /\ trace[l - 1].e = "search"
        /\ trace[l - 1].arg = <<name, frame.company>>
        /\ trace[l].arg = <<"site:linkedin.com/in/", name, frame.company>>
        /\ LET linkedin_results == LinkedInResults(trace[l].out.results)
               targets == ScanTargets(trace[l - 1].out.results)
               scans == AscendingSeq(ScansOfName)
           IN  /\ IF linkedin_results = <<>>
                  THEN FetchesOfName = {}
                  ELSE /\ FetchesOfName = {l + 1}
                       /\ trace[l + 1].arg = linkedin_results[1].url
               /\ Len(scans) = Len(targets)
               /\ \A n \in 1..Len(scans) : trace[scans[n]].arg = targets[n].url

\* C19: in search_leads_by_name a lead is appended only when the profile
\* scrape and every website-contact scan of its name are over, its emails
\* then being the union of the profile's and the scanned sites' addresses;
\* no step of the method changes a lead that is already in the collection.
C19_MergedBeforeAppended ==
    [][ frame.op = "name" =>
          /\ IsPrefix(leads, leads')
          /\ leads' # leads =>
                /\ Len(leads') = Len(leads) + 1
                /\ NameWorkFinished
                /\ leads'[Len(leads')].name = frame.names[frame.n + 1]
                /\ SeqToSet(leads'[Len(leads')].emails)
                      = ProfileEmailsOfName \cup SiteEmailsOfName ]_vars

\* the second name of a call has been appended with addresses from its
\* profile and from two sites, the first name's lead standing as it was
C19_Witness ==
    /\ frame.op = "name"
    /\ pc = "done"
    /\ frame.n = 2
    /\ Len(leads) = 2
    /\ leads[2].name = "Bob Roy"
    /\ ProfileEmailsOfName # {}
    /\ Cardinality(ScansOfName) = 2
    /\ SiteEmailsOfName \ ProfileEmailsOfName # {}
    /\ SeqToSet(leads[2].emails) = ProfileEmailsOfName \cup SiteEmailsOfName
    /\ IsPrefix(frame.leads0, leads)

\* the year a lexeme shows: the first four digits of a run of at least four
\* digits, 0 for any other lexeme
YearOf(t) == IF IsNum(t) /\ NumDigits(t[2]) >= 4 THEN FirstFourDigits(t[2]) ELSE 0

\* where the query reads 'since Y'
SinceAt == {i \in 1..Len(nlp_text) :
               IsWord(nlp_text[i], "since") /\ YearOf(Tok(nlp_text, i + 1)) > 0}

\* where the query reads 'founded in Y' or 'started in Y'
FoundedAt == {i \in 1..Len(nlp_text) :
                 /\ IsWordIn(nlp_text[i], {"founded", "started"})
                 /\ IsWord(Tok(nlp_text, i + 1), "in")
                 /\ YearOf(Tok(nlp_text, i + 2)) > 0}

\* where the query reads 'last N years'
LastNYearsAt == {i \in 1..Len(nlp_text) :
                    /\ IsWord(nlp_text[i], "last")
                    /\ IsNum(Tok(nlp_text, i + 1))
                    /\ IsWord(Tok(nlp_text, i + 2), "years")}

\* where the query reads 'in the last N years'
InTheLastAt == {i \in LastNYearsAt :
                   i > 2 /\ IsWord(nlp_text[i - 2], "in") /\ IsWord(nlp_text[i - 1], "the")}

\* where the query reads 'N year' or 'N years' after 'in last', 'in the last'
\* or 'within': the place of N
WithinOrLastAt ==
    {i \in 1..Len(nlp_text) :
        /\ IsNum(nlp_text[i])
        /\ IsWordIn(Tok(nlp_text, i + 1), {"year", "years"})
        /\ \/ IsWord(Tok(nlp_text, i - 1), "within")
           \/ /\ IsWord(Tok(nlp_text, i - 1), "last")
              /\ \/ IsWord(Tok(nlp_text, i - 2), "in")
                 \/ /\ IsWord(Tok(nlp_text, i - 2), "the")
                    /\ IsWord(Tok(nlp_text, i - 3), "in")}

\* the founding_year extract_criteria returned
FoundingYear == nlp_criteria[1].founding_year

\* C20, as worded: 'in the last N years' gives {R - N, R}; without a
\* 'last N years' phrase, 'founded in Y' or 'started in Y' gives {Y, Y};
\* without either, 'since Y' gives {Y, R}; R = 2026.  Of several phrases of
\* one kind the leftmost is meant.
C20_FoundingYearAsWorded ==
    nlp_criteria # None =>
        /\ InTheLastAt # {} =>
              FoundingYear = Some([min |-> 2026 - nlp_text[SetMin(InTheLastAt) + 1][2],
                                   max |-> 2026])
        /\ (LastNYearsAt = {} /\ FoundedAt # {}) =>
              FoundingYear = Some([min |-> YearOf(nlp_text[SetMin(FoundedAt) + 2]),
                                   max |-> YearOf(nlp_text[SetMin(FoundedAt) + 2])])
        /\ (LastNYearsAt = {} /\ FoundedAt = {} /\ SinceAt # {}) =>
              FoundingYear = Some([min |-> YearOf(nlp_text[SetMin(SinceAt) + 1]),
                                   max |-> 2026])

\* C20, amended: the last-N pattern is 'in last', 'in the last' or 'within',
\* then N, then 'year' or 'years'; when it occurs it gives {R - N, R};
\* otherwise 'founded in Y' or 'started in Y' gives {Y, Y}; otherwise
\* 'since Y' gives {Y, R}; R = 2026, and of several phrases of the kind
\* that decides the leftmost gives the numbers.
C20_FoundingYearByPriority ==
    nlp_criteria # None =>
        /\ WithinOrLastAt # {} =>
              FoundingYear = Some([min |-> 2026 - nlp_text[SetMin(WithinOrLastAt)][2],
                                   max |-> 2026])
        /\ (WithinOrLastAt = {} /\ FoundedAt # {}) =>
              FoundingYear = Some([min |-> YearOf(nlp_text[SetMin(FoundedAt) + 2]),
                                   max |-> YearOf(nlp_text[SetMin(FoundedAt) + 2])])
        /\ (WithinOrLastAt = {} /\ FoundedAt = {} /\ SinceAt # {}) =>
              FoundingYear = Some([min |-> YearOf(nlp_text[SetMin(SinceAt) + 1]),
                                   max |-> 2026])

\* a query with 'since 1999' ahead of 'in the last 2 years' gave 2024..2026
C20_Witness ==
    /\ nlp_criteria # None
    /\ SinceAt = {1}
    /\ InTheLastAt = {5}
    /\ FoundedAt = {}
    /\ FoundingYear = Some([min |-> 2024, max |-> 2026])

\* the run has ended
Exited == pc = "exit" /\ result.op = "main"

\* C21: a run whose search returned an empty lead list ends normally (exit
\* status 0, the 'No leads found' report, no export file); a run whose config
\* file cannot be read ends with a failure status without any search or
\* fetch, and so never looks like the former.
C21_EmptyResultIsNotAnAbort ==
    Exited =>
        /\ result.leads = Some(<<>>) =>
              /\ result.code = 0
              /\ result.report = "No leads found"
              /\ result.output_file = None
        /\ (frame.op = "main" /\ frame.input.source = "unreadable") =>
              /\ result.code # 0
              /\ result.leads = None
              /\ result.report # "No leads found"
              /\ trace = <<>>
              /\ leads = <<>>

\* a by-company run that searched, found no profile and ended
C21_Witness ==
    /\ Exited
    /\ frame.op = "company"
    /\ result.leads = Some(<<>>)
    /\ result.code = 0
    /\ \E e \in 1..Len(trace) : trace[e].e = "search" /\ ~trace[e].out.failed

\* the company of a lead: its company, or else its current company
CompanyOfLead(l) ==
    IF Get(l, "company", "") # "" THEN l.company ELSE Get(l, "current_company", "")

\* C22: export_summary counts the leads, the leads with an email, the leads
\* with a profile URL, the distinct non-empty companies and the emails; the
\* four inequalities follow, and the lead list is left as it was.
C22_SummaryCounts ==
    (pc = "done" /\ result.op = "summary") =>
        LET s == result.value
            idx == 1..Len(leads)
        IN  /\ s.total_leads = Len(leads)
            /\ s.leads_with_emails
                  = Cardinality({i \in idx : Get(leads[i], "emails", <<>>) # <<>>})
            /\ s.leads_with_linkedin
                  = Cardinality({i \in idx : \/ Get(leads[i], "linkedin_url", None) # None
                                             \/ Get(leads[i], "url", <<>>) # <<>>})
            /\ s.unique_companies
                  = Cardinality({CompanyOfLead(leads[i]) : i \in idx} \ {""})
            /\ s.total_emails
                  = SumOfLengths([i \in idx |-> Get(leads[i], "emails", <<>>)])
            /\ s.leads_with_emails <= s.total_leads
            /\ s.leads_with_linkedin <= s.total_leads
            /\ s.unique_companies <= s.total_leads
            /\ s.leads_with_emails <= s.total_emails
            /\ leads = frame.leads0

\* the leads the run in progress has appended so far
NewLeads == SubSeq(leads, Len(frame.leads0) + 1, Len(leads))

\* C23: in the natural-language and by-company flows every fetched profile
\* gives exactly one appended lead, under the URL that was selected and with
\* the name the fetch extracted, empty or not; a finished run has one lead
\* per selected URL.
C23_EmptyNamesAreKept ==
    DedupDone =>
        LET todo == ProfilesToScrape(frame.unique_profiles, frame.limit)
        IN  /\ Len(NewLeads) = Len(FetchEvents)
            /\ Len(NewLeads) <= Len(todo)
            /\ \A k \in 1..Len(NewLeads) :
                  /\ FetchEvents[k].arg = todo[k].url
                  /\ NewLeads[k].url = todo[k].url
                  /\ NewLeads[k].name = ScrapeProfile(todo[k].url, FetchEvents[k].out).name
            /\ pc = "done" => Len(NewLeads) = Len(todo)

\* a finished run that appended a lead without a name for a page that was
\* fetched, next to a lead with a name
C23_Witness ==
    /\ DedupDone
    /\ pc = "done"
    /\ Len(NewLeads) = 2
    /\ \E k \in 1..2 : NewLeads[k].name = "" /\ FetchEvents[k].out = "empty"
    /\ \E k \in 1..2 : NewLeads[k].name # ""

\* the records of the fetches made so far that carry a name, in fetch order
RECURSIVE NamedRecords(_)
NamedRecords(fetches) ==
    IF fetches = <<>> THEN <<>>
    ELSE LET ev == Head(fetches)
             record == RequestsScrapeProfile(ev.arg, ev.out)
         IN  (IF record.name # "" THEN <<record>> ELSE <<>>) \o NamedRecords(Tail(fetches))

\* C24: scrape_linkedin_urls fetches every given URL once, in input order,
\* adds to the lead collection the records with a non-empty name only, in
\* input order, and returns that batch, not the whole collection.
C24_UrlBatchKeepsNamedOnly ==
    (pc = "done" /\ frame.op = "urls") =>
        /\ [k \in 1..Len(FetchEvents) |-> FetchEvents[k].arg] = frame.urls
        /\ Len(trace) = Len(frame.urls)
        /\ result.status = "returned"
        /\ result.value = NamedRecords(FetchEvents)
        /\ \A k \in 1..Len(result.value) : result.value[k].name # ""
        /\ leads = frame.leads0 \o result.value

\* a call on a session that already held a lead: of its two URLs one gave a
\* name and one did not
C24_Witness ==
    /\ pc = "done"
    /\ frame.op = "urls"
    /\ frame.leads0 # <<>>
    /\ Len(frame.urls) = 2
    /\ Len(result.value) = 1
    /\ FetchEvents[1].out # "ok"
    /\ result.value[1].url = frame.urls[2]
    /\ Len(leads) = Len(frame.leads0) + 1

\* the identity key of a lead: its profile URL, or its name when it has none
IdentityKey(l) ==
    IF "url" \in DOMAIN l THEN l.url
    ELSE IF l.linkedin_url # None THEN l.linkedin_url[1]
    ELSE l.name

\* C25: a lead that stays in the collection keeps its identity key and every
\* one of its fields through every step of every later call.
C25_CollectedLeadsAreFrozen ==
    [][ \A i \in 1..Len(leads) :
           i <= Len(leads') =>
              /\ IdentityKey(leads'[i]) = IdentityKey(leads[i])
              /\ leads'[i] = leads[i] ]_vars

\* a later run fetched the URL of a lead collected by an earlier run and got
\* another name for it; the earlier lead stands beside the new one
C25_Witness ==
    /\ frame # NoFrame
    /\ frame.op \in {"nl", "company"}
    /\ Len(frame.leads0) = 1
    /\ Len(leads) = 2
    /\ leads[1] = frame.leads0[1]
    /\ "url" \in DOMAIN leads[1]
    /\ leads[2].url = leads[1].url
    /\ leads[2].name # leads[1].name

\* the place in the concatenated results of the first result with the URL
FirstOccurrence(url) ==
    SetMin({i \in 1..Len(frame.all_results) : frame.all_results[i].url = url})

\* the first n entries of a list, all of them when it has fewer (none for
\* n <= 0)
FirstN(list, n) == SubSeq(list, 1, Min(n, Len(list)))

\* the retained results follow the first occurrences of their URLs, carry
\* the last occurrence's title and snippet
RetainedInFirstOccurrenceOrder ==
    LET uniq == frame.unique_profiles
    IN  /\ \A n, m \in 1..Len(uniq) :
              n < m => FirstOccurrence(uniq[n].url) < FirstOccurrence(uniq[m].url)
        /\ \A n \in 1..Len(uniq) :
              uniq[n] = frame.all_results[LastIndexOf(frame.all_results, uniq[n].url)]

\* C26: after the deduplication the retained results are in the order of the
\* first occurrences of their URLs, each carrying its last occurrence, and
\* the URLs a finished run fetched are the first `limit` of them.
C26_FirstLimitInFirstOccurrenceOrder ==
    DedupDone =>
        /\ RetainedInFirstOccurrenceOrder
        /\ pc = "done" =>
              LET selected == FirstN(frame.unique_profiles, frame.limit)
              IN  [k \in 1..Len(FetchEvents) |-> FetchEvents[k].arg]
                     = [k \in 1..Len(selected) |-> selected[k].url]

\* the distinct profile URLs among the results the run gathered
DistinctProfileUrls == {frame.all_results[i].url : i \in ProfileIdx}

\* C27: a natural-language or by-company run with limit >= 0 ends having
\* appended min(limit, number of distinct profile URLs found) leads, the
\* k-th of them for the k-th selected URL, whatever the fetches gave and
\* whatever the collection already held.
C27_OneLeadPerSelectedUrl ==
    (InPipeline /\ pc = "done" /\ frame.limit >= 0) =>
        LET selected == FirstN(frame.unique_profiles, frame.limit)
        IN  /\ Len(NewLeads) = Min(frame.limit, Cardinality(DistinctProfileUrls))
            /\ Len(NewLeads) = Len(selected)
            /\ \A k \in 1..Len(NewLeads) : NewLeads[k].url = selected[k].url
            /\ leads = frame.leads0 \o NewLeads

\* the same query was run twice and the second run appended a lead for the
\* URL of the first run's lead; its fetch failed
C27_Witness ==
    /\ frame # NoFrame
    /\ frame.op = "nl"
    /\ pc = "done"
    /\ Len(frame.leads0) = 1
    /\ Len(leads) = 2
    /\ leads[1] = frame.leads0[1]
    /\ "search_query" \in DOMAIN leads[1]
    /\ leads[1].search_query = frame.query
    /\ leads[2].search_query = frame.query
    /\ leads[2].url = leads[1].url
    /\ FetchEvents[1].out = "error"
    /\ Cardinality(DistinctProfileUrls) = 2

\* a natural-language run whose criteria hold three or more positions and a
\* company type
ThreePositionsAndType ==
    /\ frame.op = "nl"
    /\ Len(frame.criteria.positions) >= 3
    /\ frame.criteria.company_type # None

\* C28: with three or more positions and a company type, the
\* profile-site-qualified query is the fourth entry of the plan and no
\* search of the natural-language run is made with it.
C28_SiteQueryPlannedFourthNeverRun ==
    ThreePositionsAndType =>
        /\ Len(frame.search_queries) = 4
        /\ SiteQueries(frame.search_queries) = {4}
        /\ \A e \in 1..Len(trace) :
              trace[e].e = "search" =>
                 /\ trace[e].arg # frame.search_queries[4]
                 /\ trace[e].arg[1] # "site:linkedin.com/in/"

\* such a run has made its three searches and ended
C28_Witness ==
    /\ ThreePositionsAndType
    /\ pc = "done"
    /\ result.status = "returned"
    /\ Len(SearchEvents) = 3
    /\ \A k \in 1..3 : SearchEvents[k].arg = frame.search_queries[k]

IsSiteSearch(ev) == ev.e = "search" /\ ev.arg[1] = "site:linkedin.com/in/"

\* the LinkedIn searches of a by-name call, one per name reached
LinkedInSearches == SelectSeq(trace, IsSiteSearch)

\* the place of the general search that precedes event e
PersonSearchBefore(e) ==
    LET S == {i \in 1..(e - 1) : trace[i].e = "search" /\ ~IsSiteSearch(trace[i])}
    IN  CHOOSE i \in S : \A j \in S : j <= i

\* the URL of the first LinkedIn profile among results, None without one
FirstLinkedInUrl(results) ==
    LET S == {i \in 1..Len(results) : IsProfileUrl(results[i].url)}
    IN  IF S = {} THEN None ELSE Some(results[SetMin(S)].url)

\* C29: a by-name call that has ended has appended one lead per input name,
\* in input order, with linkedin_url unset when the LinkedIn search gave no
\* profile and set to the first profile's URL otherwise; every website scan
\* is of one of the first three general results and never of a URL that
\* contains 'linkedin.com'.
C29_OneLeadPerName ==
    frame.op = "name" =>
        /\ \A e \in 1..Len(trace) :
              trace[e].e = "scan" =>
                 /\ ~Contains(trace[e].arg, <<"linkedin.com">>)
                 /\ LET results == trace[PersonSearchBefore(e)].out.results
                    IN  \E n \in 1..Min(3, Len(results)) : results[n].url = trace[e].arg
        /\ pc = "done" =>
              /\ Len(NewLeads) = Len(frame.names)
              /\ \A k \in 1..Len(NewLeads) :
                    /\ NewLeads[k].name = frame.names[k]
                    /\ NewLeads[k].linkedin_url
                          = FirstLinkedInUrl(LinkedInSearches[k].out.results)

\* C30: search_leads_by_criteria runs the by-name flow when names is not
\* empty, a company given or not; otherwise the by-company flow when company
\* is not empty; otherwise it searches and fetches nothing, leaves the
\* collection as it was and returns an empty list.
C30_CriteriaDispatch ==
    frame.op # "none" =>
        LET names == Get(frame.criteria, "names", <<>>)
            company == Get(frame.criteria, "company", "")
        IN  /\ names # <<>> =>
                  /\ frame.op = "name"
                  /\ frame.names = names
                  /\ frame.company = company
            /\ (names = <<>> /\ company # "") =>
                  /\ frame.op = "company"
                  /\ frame.company = company
            /\ (names = <<>> /\ company = "") =>
                  /\ frame.op = "criteria"
                  /\ pc = "done"
                  /\ trace = <<>>
                  /\ leads = frame.leads0
                  /\ result = Returned("criteria", <<>>)

\* a session that holds a lead was given criteria without names and company
\* and returned an empty list
C30_Witness ==
    /\ frame.op = "criteria"
    /\ pc = "done"
    /\ leads # <<>>
    /\ result.value = <<>>
    /\ trace = <<>>

====
